---- MODULE Spec2Model ----
(***************************************************************************)
(* Firmware audit backend: the audit lifecycle service                     *)
(* (backend/app/audit_service.py), the rule engine it runs as a subprocess *)
(* (backend/app/CheckFWFile_v1.3.1.py) and the SSO session service         *)
(* (backend/app/auth_service.py).                                          *)
(*                                                                         *)
(* Failures are modelled where the code handles them: a step wrapped in    *)
(* try/except may raise, and the handler's outcome is part of the action.  *)
(***************************************************************************)
EXTENDS Integers, Sequences, FiniteSets, TLC

VARIABLES
    audit_uploads,  \* db["audit_uploads"]: upload id -> <<>> or <<meta>>
    chunk_dirs,     \* <upload-dir>/chunk_uploads/<upload id> is a directory
    parts,          \* upload id -> chunk index -> <<>> or <<bytes of NNNNNN.part>>
    inflight,       \* append_chunk_to_upload requests suspended in their read loop
    audits,         \* db["audits"]: audit id -> <<>> or <<document>>
    files,          \* <upload-dir>/<audit id>/<name>: <<>> or <<bytes>>
    jobs,           \* background_tasks: audit ids whose run_check_script is scheduled
    next_audit,     \* number of audit ids in use (uuid4 never repeats)
    next_upload,    \* number of upload ids in use
    finalized,      \* history: upload id -> audit ids accepted from that session
    caller,         \* current_user["itcode"] of the last chunk-upload request
    stored,         \* audit id -> <<>> or <<what the stored archive is to the rule engine>>
    orch,           \* audit id -> where its run_check_script stands
    proc,           \* audit id -> where its rule-engine subprocess stands
    STATS,          \* audit id -> the STATS tally of its rule-engine process
    asserts,        \* history: audit id -> the log_assert calls of the run and their results
    engine_wrote,   \* history: audit id -> the status finalize_audit wrote, or "none"
    orch_wrote,     \* history: audit id -> _mark_audit_failed has written
    db_failed,      \* history: audit id -> a database call of its job has raised
    users,          \* the users collection: itcode -> <<>> or <<document>>
    sessions,       \* the sessions collection: session id -> <<>> or <<document>>
    next_session,   \* session ids handed out so far
    now,            \* the clock, in days
    OA_JWT_SECRET,  \* settings.OA_JWT_SECRET
    login_req,      \* the X-Session-Token header of the last require_login
    callback_req,   \* the body of the last OA callback
    response,       \* what the last require_login or OA callback returned
    audit_logs,     \* audit_logs collection: documents in insertion order
    audit_checks,   \* audit_checks collection: documents in insertion order
    reports,        \* report directory: per audit id, the contents of <id>.pdf
    logs_reply,     \* the last get_audit_logs call: its arguments and entries
    db_users,       \* users table of the generic subsystem: id -> row
    db_items,       \* items table of the generic subsystem: id -> row
    utcnow,         \* UTC clock of the generic subsystem, in minutes
    crud_req,       \* the last request to the generic subsystem: token and body
    crud_body,      \* the body of its response
    listing,        \* the last list_audits call: its arguments, items and total
    prev_listing,   \* the list_audits call before that one
    FIRMWARE_ZIP,   \* the archive a command-line run of the rule engine is given
    globals,        \* MANUFACTURER, PRODUCT, FW_TYPE, FW_VERSION, root_dir of that run
    WORK_DIR,       \* <tempdir>/fwcheck/<AUDIT_ID> of that run: absent, empty or filled
    temp_files,     \* NamedTemporaryFile files of that run still in <tempdir>
    invoked,        \* history: the checks run_all_tests has invoked, in order
    naming,         \* history: statuses of the first two rows of test_firmware_naming
    main,           \* where the command-line run stands
    last            \* the handler step taken last and its HTTP outcome

upload_vars == <<audit_uploads, chunk_dirs, parts, inflight, next_upload, finalized,
                 caller>>

run_vars == <<stored, orch, proc, STATS, asserts, engine_wrote, orch_wrote, db_failed>>

audit_vars == <<audits, files, jobs, next_audit>>

auth_vars == <<users, sessions, next_session, now, OA_JWT_SECRET, login_req,
               callback_req, response>>

vars == <<audit_uploads, chunk_dirs, parts, inflight, audits, files, jobs,
          next_audit, next_upload, finalized, caller, stored, orch, proc, STATS, asserts,
          engine_wrote, orch_wrote, db_failed, users, sessions, next_session, now,
          OA_JWT_SECRET, login_req, callback_req, response, audit_logs, audit_checks,
          reports, logs_reply, listing, prev_listing, db_users, db_items, utcnow,
          crud_req, crud_body, FIRMWARE_ZIP, globals, WORK_DIR, temp_files, invoked,
          naming, main, last>>

\* what only the read-only queries change
query_vars == <<listing, prev_listing, logs_reply>>

\* the generic subsystem
crud_vars == <<db_users, db_items, utcnow, crud_req, crud_body>>

\* a command-line run of the rule engine
cli_vars == <<FIRMWARE_ZIP, globals, WORK_DIR, temp_files, invoked, naming, main>>

\* what the rule engine records and what is rendered from it
record_vars == <<audit_logs, audit_checks, reports>>

\* what the chunked-upload endpoints leave alone
outside_upload == <<run_vars, auth_vars, query_vars, record_vars, crud_vars, cli_vars>>

\* what the direct upload, the job and the rule engine leave alone
outside_service == <<auth_vars, query_vars, crud_vars, cli_vars>>

\* what the session service leaves alone
outside_auth == <<upload_vars, run_vars, audit_vars, query_vars, record_vars, crud_vars,
                  cli_vars>>

----------------------------------------------------------------------------
(* Bounds of the model *)

MaxUploads == 1     \* upload sessions opened in one behaviour
MaxChunks == 2      \* largest totalChunks a session declares
MaxAudits == 2      \* audits accepted in one behaviour
MaxInFlight == 1    \* append requests suspended at the same time
MaxPartial == 0     \* bytes an assembly has written when it is interrupted
MaxDirect == 1      \* direct uploads accepted in one behaviour
MaxAsserts == 2     \* log_assert calls of one rule-engine run
MaxSessions == 2    \* sessions created in one behaviour
MaxTime == 45       \* last day the clock reaches
TickDays == 15      \* days the clock advances in one step
MaxStamp == 2       \* distinct createdAt values in the audit history
MaxLimit == 2       \* largest limit of a query
MaxOffset == 2      \* largest offset of a query
MaxLogs == 4        \* documents in audit_logs
MaxLogStamp == 3    \* distinct timestamps in audit_logs
MaxUsers == 2       \* ids of the users table
MaxItems == 2       \* ids of the items table
MaxMinutes == 30    \* how far the clock of the generic subsystem runs
TickMinutes == 15   \* minutes the clock advances in one step

\* settings.ACCESS_TOKEN_EXPIRE_MINUTES
ACCESS_TOKEN_EXPIRE_MINUTES == 15

\* settings.REFRESH_TOKEN_EXPIRE_DAYS
REFRESH_TOKEN_EXPIRE_DAYS == 30

\* test_firmware_naming asserts twice before anything in it can raise
MinAsserts == 2

UploadIds == 1..MaxUploads
AuditIds == 1..MaxAudits
Slots == 1..MaxInFlight
ChunkIdx == 0..(MaxChunks - 1)

\* chunk bodies a client sends, one model byte per 1 MiB read
Bodies == {<<1>>, <<2, 3>>}

None == <<>>
Some(x) == <<x>>

\* the form fields of an upload, as the endpoints pass them on
Metas ==
    { [firmwareType |-> "BMC", productName |-> "P1", version |-> "1.0",
       checkScript |-> "CheckFWFile_v1.3.1.py", userId |-> "alice",
       userName |-> "Alice"],
      [firmwareType |-> "UNKNOWN", productName |-> "null", version |-> "null",
       checkScript |-> "other.py", userId |-> "bob", userName |-> "Bob"] }

----------------------------------------------------------------------------
(* Documents and replies *)

ZeroSummary == [total |-> 0, passed |-> 0, warning |-> 0, failed |-> 0]

audit_doc_running(m) ==
    [status |-> "RUNNING", createdAt |-> "accepted_utc_iso", completedAt |-> "null",
     firmwareType |-> m.firmwareType, productName |-> m.productName,
     version |-> m.version, checkScript |-> m.checkScript, userId |-> m.userId,
     userName |-> m.userName,
     summary |-> ZeroSummary, errorMessage |-> "absent"]

\* the audits document written at acceptance
audit_doc(m) ==
    [status |-> "PENDING", createdAt |-> "accepted_utc_iso", completedAt |-> "null",
     firmwareType |-> m.firmwareType, productName |-> m.productName,
     version |-> m.version, checkScript |-> m.checkScript, userId |-> m.userId,
     userName |-> m.userName,
     summary |-> ZeroSummary, errorMessage |-> "absent"]

Reply(op, code, detail, id) ==
    [op |-> op, code |-> code, detail |-> detail, id |-> id]

IdleSlot ==
    [st |-> "idle", u |-> 0, i |-> 0, body |-> <<>>, pos |-> 0, linked |-> FALSE,
     sole |-> FALSE]

\* f.write(data) through a handle whose offset is pos: a write past the end of a
\* file that a later open truncated leaves a hole of zero bytes
WriteAt(data, pos, b) ==
    [k \in 1..(IF Len(data) > pos + 1 THEN Len(data) ELSE pos + 1) |->
        IF k = pos + 1 THEN b ELSE IF k <= Len(data) THEN data[k] ELSE 0]

\* the open handles on <u>/<i>.part
Writers(fl, u, i) == {s \in Slots : fl[s].st = "writing" /\ fl[s].u = u /\ fl[s].i = i}

\* part_path.unlink(): the handles on it lose their directory entry
Detach(fl, u, i) ==
    [s \in Slots |-> IF s \in Writers(fl, u, i)
                     THEN [fl[s] EXCEPT !.linked = FALSE] ELSE fl[s]]

\* part_path.open("wb") by another request truncates the file under the handles on it
Shared(fl, u, i) ==
    [s \in Slots |-> IF s \in Writers(fl, u, i)
                     THEN [fl[s] EXCEPT !.sole = FALSE] ELSE fl[s]]

RECURSIVE ConcatDescending(_, _, _)
ConcatDescending(ps, k, n) ==
    IF k >= n THEN <<>> ELSE ConcatDescending(ps, k + 1, n) \o ps[k][1]

RECURSIVE Concat(_, _, _)
\* dest.write of the parts k..n-1 in index order
Concat(ps, k, n) == IF k >= n THEN <<>> ELSE ps[k][1] \o Concat(ps, k + 1, n)

----------------------------------------------------------------------------
(* Chunked upload *)

init_chunked_audit_upload(m, total_chunks, sizes_ok) ==
    /\ next_upload < MaxUploads
    /\ IF ~sizes_ok \/ total_chunks <= 0
       THEN /\ last' = Reply("chunk_init", 400, "Invalid chunk upload parameters", 0)
            /\ UNCHANGED <<audit_uploads, chunk_dirs, next_upload>>
       ELSE LET upload_id == next_upload + 1 IN
            /\ next_upload' = upload_id
            /\ chunk_dirs' = [chunk_dirs EXCEPT ![upload_id] = TRUE]
            /\ audit_uploads' =
                  [audit_uploads EXCEPT ![upload_id] = Some(m @@ [totalChunks |-> total_chunks])]
            /\ last' = Reply("chunk_init", 200, "ok", upload_id)
    /\ UNCHANGED <<parts, inflight, audits, files, jobs, next_audit, finalized>>

\* except-branch of the append: if part_path.exists(): unlink, itself best-effort
append_cleanup(s, u, i) ==
    \/ /\ parts[u][i] # None
       /\ parts' = [parts EXCEPT ![u][i] = None]
       /\ inflight' = [Detach(inflight, u, i) EXCEPT ![s] = IdleSlot]
    \/ /\ parts' = parts
       /\ inflight' = [inflight EXCEPT ![s] = IdleSlot]

chunk_index_negative(chunk_index, expected_total) == chunk_index < 0

\* chunk_index < 0 or chunk_index >= expected_total
chunk_index_invalid(chunk_index, expected_total) ==
    chunk_index < 0 \/ chunk_index >= expected_total

upload_dir_missing_never(u) == FALSE

\* not chunk_dir.is_dir()
upload_dir_missing(u) == ~chunk_dirs[u]

\* append_chunk_to_upload up to its first await: the checks and part_path.open("wb")
append_chunk_to_upload(s, u, chunk_index, total_chunks, body) ==
    /\ inflight[s].st = "idle"
    /\ UNCHANGED <<audit_uploads, chunk_dirs, audits, files, jobs, next_audit,
                   next_upload, finalized>>
    /\ IF audit_uploads[u] = None
       THEN /\ last' = Reply("append", 404, "Upload session not found", u)
            /\ UNCHANGED <<parts, inflight>>
       ELSE LET expected_total == audit_uploads[u][1].totalChunks IN
            IF expected_total <= 0 \/ expected_total # total_chunks
            THEN /\ last' = Reply("append", 400, "Chunk count mismatch", u)
                 /\ UNCHANGED <<parts, inflight>>
            ELSE IF chunk_index_invalid(chunk_index, expected_total)
            THEN /\ last' = Reply("append", 400, "Invalid chunk index", u)
                 /\ UNCHANGED <<parts, inflight>>
            ELSE IF upload_dir_missing(u)
            THEN /\ last' = Reply("append", 404, "Upload directory not found", u)
                 /\ UNCHANGED <<parts, inflight>>
            ELSE \/ /\ last' = Reply("append", 0, "suspended", u)
                    /\ parts' = [parts EXCEPT ![u][chunk_index] = Some(<<>>)]
                    /\ inflight' = [Shared(inflight, u, chunk_index) EXCEPT ![s] =
                           [st |-> "writing", u |-> u, i |-> chunk_index, body |-> body,
                            pos |-> 0, linked |-> TRUE,
                            sole |-> Writers(inflight, u, chunk_index) = {}]]
                 \/ \* the open raises
                    /\ last' = Reply("append", 500, "Failed to store chunk", u)
                    /\ append_cleanup(s, u, chunk_index)

\* one turn of the read loop: data = await chunk_file.read(); f.write(data)
append_write(s) ==
    LET r == inflight[s] IN
    /\ r.st = "writing"
    /\ r.pos < Len(r.body)
    /\ inflight' = [inflight EXCEPT ![s].pos = r.pos + 1]
    /\ parts' = IF r.linked
                THEN [parts EXCEPT ![r.u][r.i] =
                         Some(WriteAt(parts[r.u][r.i][1], r.pos, r.body[r.pos + 1]))]
                ELSE parts
    /\ last' = Reply("append_write", 0, "suspended", r.u)
    /\ UNCHANGED <<audit_uploads, chunk_dirs, audits, files, jobs, next_audit,
                   next_upload, finalized>>

\* the read returns no data: the loop ends, the file is closed, 204
append_done(s) ==
    LET r == inflight[s] IN
    /\ r.st = "writing"
    /\ r.pos = Len(r.body)
    /\ inflight' = [inflight EXCEPT ![s] = IdleSlot]
    /\ last' = Reply("append_done", 204, "ok", r.u)
    /\ UNCHANGED <<audit_uploads, chunk_dirs, parts, audits, files, jobs, next_audit,
                   next_upload, finalized>>

\* the read or the write raises: the handler unlinks part_path if it exists, 500
append_failed(s) ==
    LET r == inflight[s] IN
    /\ r.st = "writing"
    /\ last' = Reply("append_failed", 500, "Failed to store chunk", r.u)
    /\ append_cleanup(s, r.u, r.i)
    /\ UNCHANGED <<audit_uploads, chunk_dirs, audits, files, jobs, next_audit,
                   next_upload, finalized>>

missing_chunk_but_first(u, total_chunks) ==
    \E index \in 1..(total_chunks - 1) : parts[u][index] = None

\* for index in range(total_chunks): if not (chunk_dir / part).is_file()
missing_chunk(u, total_chunks) ==
    \E index \in 0..(total_chunks - 1) : parts[u][index] = None

\* the best-effort cleanup that ends a successful finalize: delete_one, the unlink
\* of every part, rmdir; each may raise and is then skipped.
\* keep: the part files whose unlink raises
finalize_cleanup(u, total_chunks, delete_fail, keep, rmdir_fail) ==
    LET gone == {i \in 0..(total_chunks - 1) : i \notin keep} IN
    /\ audit_uploads' = IF delete_fail THEN audit_uploads
                        ELSE [audit_uploads EXCEPT ![u] = None]
    /\ parts' = [parts EXCEPT ![u] =
                    [i \in ChunkIdx |-> IF i \in gone THEN None ELSE parts[u][i]]]
    /\ inflight' = [s \in Slots |->
           IF inflight[s].st = "writing" /\ inflight[s].u = u /\ inflight[s].i \in gone
           THEN [inflight[s] EXCEPT !.linked = FALSE] ELSE inflight[s]]
    /\ chunk_dirs' = IF gone = 0..(total_chunks - 1) /\ ~rmdir_fail
                     THEN [chunk_dirs EXCEPT ![u] = FALSE] ELSE chunk_dirs

finalize_failed_dropping_parts(u, audit_id, detail, written, unlink_raises) ==
    /\ last' = Reply("finalize", 500, detail, u)
    /\ parts' = [parts EXCEPT ![u] = [i \in ChunkIdx |-> None]]
    /\ UNCHANGED <<audit_uploads, chunk_dirs, inflight, audits, files, jobs, finalized,
                   next_audit>>

\* the except branches of the assembly and of the audits update_one: if
\* target_path.exists(): unlink, itself best-effort; then 500.
\* written: what target_path holds when the exception is raised
finalize_failed(u, audit_id, detail, written, unlink_raises) ==
    /\ last' = Reply("finalize", 500, detail, u)
    /\ IF unlink_raises
       THEN \* the file stays
            /\ files' = [files EXCEPT ![audit_id] = Some(written)]
            /\ next_audit' = audit_id
       ELSE \* nothing but an empty directory is left under the audit id, and
            \* the model hands the same index to the next attempt
            UNCHANGED <<files, next_audit>>
    /\ UNCHANGED <<audit_uploads, chunk_dirs, parts, inflight, audits, jobs, finalized>>

\* finalize_chunked_audit_upload: it never awaits, so it runs as one step.
\* unlink_raises: whether the unlink of target_path raises, should it be reached
finalize_chunked_audit_upload(u, unlink_raises) ==
    /\ UNCHANGED next_upload
    /\ IF audit_uploads[u] = None
       THEN /\ last' = Reply("finalize", 404, "Upload session not found", u)
            /\ UNCHANGED <<audit_uploads, chunk_dirs, parts, inflight, audits, files,
                           jobs, next_audit, finalized>>
       ELSE LET meta == audit_uploads[u][1]
                total_chunks == meta.totalChunks
            IN
            IF upload_dir_missing(u)
            THEN /\ last' = Reply("finalize", 404, "Upload directory not found", u)
                 /\ UNCHANGED <<audit_uploads, chunk_dirs, parts, inflight, audits, files,
                                jobs, next_audit, finalized>>
            ELSE IF total_chunks <= 0
            THEN /\ last' = Reply("finalize", 400, "Invalid upload metadata", u)
                 /\ UNCHANGED <<audit_uploads, chunk_dirs, parts, inflight, audits, files,
                                jobs, next_audit, finalized>>
            ELSE IF missing_chunk(u, total_chunks)
            THEN /\ last' = Reply("finalize", 400, "Missing chunk", u)
                 /\ UNCHANGED <<audit_uploads, chunk_dirs, parts, inflight, audits, files,
                                jobs, next_audit, finalized>>
            ELSE LET audit_id == next_audit + 1 IN
                 /\ next_audit < MaxAudits
                 /\ \/ \* a read or a write of the assembly raises
                       \E k \in 0..MaxPartial :
                          finalize_failed(u, audit_id, "Failed to assemble uploaded file",
                                          SubSeq(Concat(parts[u], 0, total_chunks), 1, k),
                                          unlink_raises)
                    \/ \* the audits update_one raises
                       finalize_failed(u, audit_id, "Failed to initialize audit task",
                                       Concat(parts[u], 0, total_chunks), unlink_raises)
                    \/ /\ \A i \in 0..(total_chunks - 1) : parts[u][i] # None
                       /\ next_audit' = audit_id
                       /\ files' = [files EXCEPT ![audit_id] =
                                       Some(Concat(parts[u], 0, total_chunks))]
                       /\ audits' = [audits EXCEPT ![audit_id] = Some(audit_doc(meta))]
                       /\ jobs' = jobs \cup {audit_id}
                       /\ \E delete_fail \in BOOLEAN, rmdir_fail \in BOOLEAN,
                             keep \in SUBSET (0..(total_chunks - 1)) :
                             finalize_cleanup(u, total_chunks, delete_fail, keep, rmdir_fail)
                       /\ finalized' = [finalized EXCEPT ![u] = @ \cup {audit_id}]
                       /\ last' = Reply("finalize", 201, "PENDING", u)

----------------------------------------------------------------------------
(* Direct upload, the background job and the rule-engine process *)

LowerChar(c) ==
    CASE c = "Z" -> "z" [] c = "I" -> "i" [] c = "P" -> "p" [] OTHER -> c

\* str.lower()
Lower(name) == [k \in 1..Len(name) |-> LowerChar(name[k])]

\* name.lower().endswith(".zip")
EndsWithZip(name) ==
    Len(name) >= 4 /\ SubSeq(Lower(name), Len(name) - 3, Len(name)) = <<".", "z", "i", "p">>

\* file.filename or "firmware.zip"
original_filename(filename) ==
    IF filename = <<>> THEN <<"f", "i", "r", "m", "w", "a", "r", "e", ".", "z", "i", "p">>
    ELSE filename

\* safe_name of create_audit for a name without path separators
safe_name(name) ==
    IF EndsWithZip(name) THEN name ELSE name \o <<".", "z", "i", "p">>

Letters ==
    {"a", "b", "c", "d", "e", "f", "g", "h", "i", "j", "k", "l", "m", "n", "o", "p", "q",
     "r", "s", "t", "u", "v", "w", "x", "y", "z", "A", "B", "C", "D", "E", "F", "G", "H",
     "I", "J", "K", "L", "M", "N", "O", "P", "Q", "R", "S", "T", "U", "V", "W", "X", "Y",
     "Z"}

\* [A-Za-z0-9.-]
VersionChars ==
    Letters \cup {"0", "1", "2", "3", "4", "5", "6", "7", "8", "9", ".", "-"}

\* whether the pattern of extract_info_from_filename is found in the name:
\* [^_]+ _ [^_]+ _ (BMC|BIOS) _ [A-Za-z0-9.-]+
filename_matches(name) ==
    \E p, q \in 1..Len(name) :
        /\ p > 1 /\ name[p - 1] # "_" /\ name[p] = "_"
        /\ q > p + 1 /\ name[q] = "_"
        /\ \A k \in (p + 1)..(q - 1) : name[k] # "_"
        /\ \/ /\ Len(name) >= q + 5
              /\ SubSeq(name, q + 1, q + 4) = <<"B", "M", "C", "_">>
              /\ name[q + 5] \in VersionChars
           \/ /\ Len(name) >= q + 6
              /\ SubSeq(name, q + 1, q + 5) = <<"B", "I", "O", "S", "_">>
              /\ name[q + 6] \in VersionChars

\* what a client uploads: the file name, and whether zipfile.ZipFile opens the bytes
UploadFiles ==
    { [filename |-> <<"M", "_", "P", "_", "B", "M", "C", "_", "1", ".", "z", "i", "p">>,
       is_zip |-> TRUE],
      [filename |-> <<"M", "_", "P", "_", "B", "M", "C", "_", "1", ".", "z", "i", "p">>,
       is_zip |-> FALSE],
      [filename |-> <<>>, is_zip |-> TRUE],
      [filename |-> <<"a", ".", "Z", "I", "P">>, is_zip |-> TRUE],
      [filename |-> <<"M", "_", "P", "_", "B", "M", "C", "_", "1", ".", "t", "x", "t">>,
       is_zip |-> TRUE] }

create_audit(file, m) ==
    /\ UNCHANGED <<upload_vars, proc, STATS, asserts, engine_wrote, orch_wrote, db_failed>>
    /\ IF ~EndsWithZip(original_filename(file.filename))
       THEN /\ last' = Reply("create_audit", 400, "Only .zip files are supported", 0)
            /\ UNCHANGED <<audits, files, jobs, next_audit, stored, orch>>
       ELSE LET audit_id == next_audit + 1 IN
            /\ next_audit < MaxDirect
            /\ \/ \* writing the upload raises: target_path is unlinked
                  /\ last' = Reply("create_audit", 500, "Failed to store uploaded file", 0)
                  /\ UNCHANGED <<audits, files, jobs, next_audit, stored, orch>>
               \/ \* the audits update_one raises: target_path is unlinked
                  /\ last' = Reply("create_audit", 500, "Failed to initialize audit task", 0)
                  /\ UNCHANGED <<audits, files, jobs, next_audit, stored, orch>>
               \/ /\ next_audit' = audit_id
                  /\ files' = [files EXCEPT ![audit_id] = Some(<<1>>)]
                  /\ stored' = [stored EXCEPT ![audit_id] =
                                   Some([name |-> safe_name(original_filename(file.filename)),
                                         is_zip |-> file.is_zip])]
                  /\ audits' = [audits EXCEPT ![audit_id] = Some(audit_doc(m))]
                  /\ jobs' = jobs \cup {audit_id}
                  /\ orch' = [orch EXCEPT ![audit_id] = "queued"]
                  /\ last' = Reply("create_audit", 201, "PENDING", audit_id)

\* GET /audits/{audit_id}: find_one, 404 when there is no document
get_audit(audit_id) ==
    /\ last' = IF audits[audit_id] = None
               THEN Reply("get_audit", 404, "Audit not found", audit_id)
               ELSE Reply("get_audit", 200, audits[audit_id][1].status, audit_id)
    /\ UNCHANGED <<upload_vars, run_vars, audits, files, jobs, next_audit>>

failed_doc_no_time(doc, reason) ==
    [doc EXCEPT !.status = "FAILED", !.errorMessage = reason]

\* the $set of _mark_audit_failed
failed_doc(doc, reason) ==
    [doc EXCEPT !.status = "FAILED", !.completedAt = "failed_utc_iso",
                !.errorMessage = reason]

\* _mark_audit_failed: update_one without upsert; an exception is logged and dropped
mark_audit_failed(a, reason) ==
    \/ /\ audits' = [audits EXCEPT ![a] = IF @ = None THEN None ELSE Some(failed_doc(@[1], reason))]
       /\ orch_wrote' = [orch_wrote EXCEPT ![a] = TRUE]
       /\ db_failed' = db_failed
    \/ /\ audits' = audits
       /\ orch_wrote' = orch_wrote
       /\ db_failed' = [db_failed EXCEPT ![a] = TRUE]

\* run_check_script up to subprocess.run: the script lookup and the spawn
run_check_script(a) ==
    /\ orch[a] = "queued"
    /\ UNCHANGED <<upload_vars, files, jobs, next_audit, stored, STATS, asserts, engine_wrote>>
    /\ \/ \* not script_path.is_file()
          /\ mark_audit_failed(a, "script missing")
          /\ orch' = [orch EXCEPT ![a] = "returned"]
          /\ proc' = proc
          /\ last' = Reply("run_check_script", 0, "script missing", a)
       \/ \* subprocess.run raises something else than the two below
          /\ mark_audit_failed(a, "invocation exception")
          /\ orch' = [orch EXCEPT ![a] = "returned"]
          /\ proc' = proc
          /\ last' = Reply("run_check_script", 0, "invocation exception", a)
       \/ /\ orch' = [orch EXCEPT ![a] = "waiting"]
          /\ proc' = [proc EXCEPT ![a] = "started"]
          /\ last' = Reply("run_check_script", 0, "spawned", a)
          /\ UNCHANGED <<audits, orch_wrote, db_failed>>

ProcessRunning(a) == proc[a] \in {"started", "testing", "tested", "cleanup"}

\* subprocess.TimeoutExpired: the child is killed wherever it stands
script_timeout(a) ==
    /\ orch[a] = "waiting"
    /\ ProcessRunning(a)
    /\ proc' = [proc EXCEPT ![a] = "killed"]
    /\ mark_audit_failed(a, "timeout")
    /\ orch' = [orch EXCEPT ![a] = "returned"]
    /\ last' = Reply("run_check_script", 0, "timeout", a)
    /\ UNCHANGED <<upload_vars, files, jobs, next_audit, stored, STATS, asserts, engine_wrote>>

\* subprocess.run returns, or raises CalledProcessError on a non-zero exit code
script_exited(a) ==
    /\ orch[a] = "waiting"
    /\ proc[a] \in {"exit0", "exit1"}
    /\ orch' = [orch EXCEPT ![a] = "returned"]
    /\ IF proc[a] = "exit1"
       THEN /\ mark_audit_failed(a, "non-zero exit")
            /\ last' = Reply("run_check_script", 0, "non-zero exit", a)
       ELSE /\ UNCHANGED <<audits, orch_wrote, db_failed>>
            /\ last' = Reply("run_check_script", 0, "zero exit", a)
    /\ UNCHANGED <<upload_vars, files, jobs, next_audit, stored, proc, STATS, asserts,
                   engine_wrote>>

EngineFrame == UNCHANGED <<upload_vars, files, jobs, next_audit, stored, orch, orch_wrote>>

\* initialize_globals, then the with zipfile.ZipFile(FIRMWARE_ZIP) of __main__
engine_start(a) ==
    /\ proc[a] = "started"
    /\ EngineFrame
    /\ UNCHANGED <<audits, STATS, asserts, engine_wrote, db_failed>>
    /\ IF ~filename_matches(stored[a][1].name)
       THEN \* extract_info_from_filename raises ValueError: exit(1)
            /\ proc' = [proc EXCEPT ![a] = "exit1"]
            /\ last' = Reply("engine", 0, "exit(1)", a)
       ELSE IF ~stored[a][1].is_zip
       THEN \* the except of __main__ prints, the finally cleans up, exit code 0
            /\ proc' = [proc EXCEPT ![a] = "exit0"]
            /\ last' = Reply("engine", 0, "unreadable zip", a)
       ELSE /\ proc' = [proc EXCEPT ![a] = "testing"]
            /\ last' = Reply("engine", 0, "run_all_tests", a)

stats_after_counting_twice(stats, condition, fail_level) ==
    [total |-> stats.total + 1,
     passed |-> stats.passed + (IF condition /\ fail_level # "WARNING" THEN 1 ELSE 0),
     warning |-> stats.warning + (IF fail_level = "WARNING" THEN 1 ELSE 0),
     failed |-> stats.failed + (IF ~condition THEN 1 ELSE 0)]

stats_after_warning_is_failure(stats, condition, fail_level) ==
    [total |-> stats.total + 1,
     passed |-> stats.passed + (IF condition THEN 1 ELSE 0),
     warning |-> stats.warning,
     failed |-> stats.failed + (IF ~condition THEN 1 ELSE 0)]

\* the STATS update of log_assert
stats_after(stats, condition, fail_level) ==
    [total |-> stats.total + 1,
     passed |-> stats.passed + (IF condition /\ fail_level # "WARNING" THEN 1 ELSE 0),
     warning |-> stats.warning + (IF fail_level = "WARNING" THEN 1 ELSE 0),
     failed |-> stats.failed + (IF ~condition /\ fail_level # "WARNING" THEN 1 ELSE 0)]

\* level of the audit_logs document
log_level(condition, fail_level) ==
    IF condition THEN (IF fail_level = "WARNING" THEN "info" ELSE "success")
    ELSE (IF fail_level = "WARNING" THEN "warn" ELSE "error")

\* status of the audit_checks document
check_status(condition, fail_level) ==
    IF condition THEN "PASS"
    ELSE (IF fail_level = "WARNING" THEN "WARNING" ELSE "FAIL")

\* ts is the UTC clock at the insert
log_doc(a, ts, level) == [auditId |-> a, timestamp |-> ts, level |-> level]

check_doc(a, status) == [auditId |-> a, status |-> status]

\* one log_assert of a check; its inserts into audit_logs and audit_checks are
\* best-effort
log_assert(a, condition, fail_level) ==
    /\ proc[a] = "testing"
    /\ STATS[a].total < MaxAsserts
    /\ EngineFrame
    /\ STATS' = [STATS EXCEPT ![a] = stats_after(@, condition, fail_level)]
    \* the call as made, and what it returns: return condition
    /\ asserts' = [asserts EXCEPT ![a] = Append(@, <<condition, fail_level, condition>>)]
    /\ \/ \* both inserts succeed
          /\ audit_logs' = Append(audit_logs, log_doc(a, Len(audit_logs) + 1,
                                                      log_level(condition, fail_level)))
          /\ audit_checks' = Append(audit_checks,
                                    check_doc(a, check_status(condition, fail_level)))
          /\ db_failed' = db_failed
       \/ \* the insert into audit_checks raises
          /\ audit_logs' = Append(audit_logs, log_doc(a, Len(audit_logs) + 1,
                                                      log_level(condition, fail_level)))
          /\ audit_checks' = audit_checks
          /\ db_failed' = [db_failed EXCEPT ![a] = TRUE]
       \/ \* the insert into audit_logs raises: the rest of the try block is skipped
          /\ audit_logs' = audit_logs
          /\ audit_checks' = audit_checks
          /\ db_failed' = [db_failed EXCEPT ![a] = TRUE]
    /\ last' = Reply("engine", 0, "log_assert", a)
    /\ UNCHANGED <<audits, proc, engine_wrote>>

\* run_all_tests returns and print_zip_tree appends the tree to the log file; an
\* exception of either skips finalize_audit
engine_tests_done(a) ==
    /\ proc[a] = "testing"
    /\ STATS[a].total >= MinAsserts
    /\ EngineFrame
    /\ UNCHANGED <<audits, STATS, asserts, engine_wrote, db_failed>>
    /\ \/ /\ proc' = [proc EXCEPT ![a] = "tested"]
          /\ last' = Reply("engine", 0, "print_zip_tree", a)
       \/ /\ proc' = [proc EXCEPT ![a] = "cleanup"]
          /\ last' = Reply("engine", 0, "summary raised", a)

\* status = "COMPLETED"; if failed > 0: status = "FAILED"
final_status(stats) == IF stats.failed > 0 THEN "FAILED" ELSE "COMPLETED"

\* the $set of finalize_audit, upserted under the audit id passed with -a
final_doc(doc, stats) ==
    [doc EXCEPT !.status = final_status(stats),
                !.createdAt = "engine_start_local",
                !.completedAt = "finished_utc_iso",
                !.firmwareType = "BMC", !.productName = "P", !.version = "1",
                !.summary = stats]

finalize_audit(a) ==
    /\ proc[a] = "tested"
    /\ EngineFrame
    /\ proc' = [proc EXCEPT ![a] = "cleanup"]
    /\ UNCHANGED <<STATS, asserts>>
    /\ \/ /\ audits' = [audits EXCEPT ![a] = Some(final_doc(@[1], STATS[a]))]
          /\ engine_wrote' = [engine_wrote EXCEPT ![a] = final_status(STATS[a])]
          /\ db_failed' = db_failed
          /\ last' = Reply("engine", 0, "finalize_audit", a)
       \/ \* the update_one raises: printed and dropped
          /\ audits' = audits
          /\ engine_wrote' = engine_wrote
          /\ db_failed' = [db_failed EXCEPT ![a] = TRUE]
          /\ last' = Reply("engine", 0, "finalize_audit raised", a)

\* the finally of __main__: shutil.rmtree(WORK_DIR), then the process ends
engine_exit(a) ==
    /\ proc[a] = "cleanup"
    /\ EngineFrame
    /\ proc' = [proc EXCEPT ![a] = "exit0"]
    /\ last' = Reply("engine", 0, "exit", a)
    /\ UNCHANGED <<audits, STATS, asserts, engine_wrote, db_failed>>

----------------------------------------------------------------------------
(* OA single sign-on callback and session check *)

SessionIds == 1..MaxSessions

Itcodes == {"alice", "bob"}

\* a JSON object with none of the keys the service reads
EmptyObject == [exp |-> None, itcode |-> None]

NoResponse == [sessionId |-> <<>>, itcode |-> "", user |-> EmptyObject]

\* decoded token payloads: exp and itcode, each possibly missing
Payloads == [exp : {None, Some(15)}, itcode : {None, Some(""), Some("alice"), Some("bob")}]

\* the payload segment: base64url of a JSON object, or of something json.loads rejects
PayloadSegs == {[json |-> Some(p)] : p \in Payloads} \cup {[json |-> None]}

\* hmac.new(key, signing_input, sha256).digest(), taken as collision-free
Hmac(key, signing_input) == [key |-> key, over |-> signing_input]

GoodSeg == [json |-> Some([exp |-> Some(15), itcode |-> Some("bob")])]

\* the signature segment: base64url of a digest (made with the service's key,
\* with another key, or over another payload), or text _base64url_decode rejects
SignatureSegs(header, payload_seg) ==
    { [mac |-> Some(Hmac("k", <<header, payload_seg>>))],
      [mac |-> Some(Hmac("other", <<header, payload_seg>>))],
      [mac |-> Some(Hmac("k", <<header, GoodSeg>>))],
      [mac |-> None] }

\* tokens as token.split(".") sees them: three segments, or two, or four
Tokens ==
    UNION { { <<"h", p, g>> : g \in SignatureSegs("h", p) } : p \in PayloadSegs }
    \cup { <<"h", GoodSeg>>,
           <<"h", GoodSeg, [mac |-> Some(Hmac("k", <<"h", GoodSeg>>))],
             [mac |-> Some(Hmac("k", <<"h", GoodSeg>>))]>> }

\* X-Session-Token: absent, empty, a never-issued id, or an id the service may issue
SessionTokens ==
    { [present |-> FALSE, value |-> <<>>], [present |-> TRUE, value |-> <<>>] }
    \cup { [present |-> TRUE, value |-> <<k>>] : k \in 0..MaxSessions }

token_expired_never(now_ts, exp) == FALSE

\* now_ts > float(exp)
token_expired(now_ts, exp) == now_ts > exp

Rejected(code, detail) == [code |-> code, detail |-> detail, payload |-> EmptyObject]

decode_and_verify_jwt(token, secret, now_ts) ==
    IF Len(token) # 3 THEN Rejected(400, "Invalid token format")
    ELSE IF token[3].mac = None THEN Rejected(400, "Invalid token signature encoding")
    ELSE IF token[3].mac[1] # Hmac(secret, <<token[1], token[2]>>)
         THEN Rejected(400, "Invalid token signature")
    ELSE IF token[2].json = None THEN Rejected(400, "Invalid token payload")
    ELSE IF token[2].json[1].exp = None THEN Rejected(400, "Token missing exp")
    ELSE IF token_expired(now_ts, token[2].json[1].exp[1])
         THEN Rejected(400, "Token has expired")
    ELSE [code |-> 200, detail |-> "ok", payload |-> token[2].json[1]]

\* the users upsert of handle_oa_callback: $set and $setOnInsert
user_doc(old, itcode, decoded, t) ==
    [itcode |-> itcode, profile |-> decoded, updatedAt |-> t,
     createdAt |-> IF old = None THEN t ELSE old[1].createdAt]

session_doc_expiring_at_once(itcode, t) ==
    [itcode |-> itcode, createdAt |-> t, expiresAt |-> Some(t)]

\* the document _create_session inserts
session_doc(itcode, t) ==
    [itcode |-> itcode, createdAt |-> t, expiresAt |-> Some(t + REFRESH_TOKEN_EXPIRE_DAYS)]

AuthFrame == UNCHANGED <<now, OA_JWT_SECRET>>

handle_oa_callback(status_value, payload_token) ==
    LET decoded == decode_and_verify_jwt(payload_token, OA_JWT_SECRET, now)
        refuse(code, detail) ==
            /\ last' = Reply("oa_callback", code, detail, 0)
            /\ response' = NoResponse
            /\ UNCHANGED <<users, sessions, next_session>>
    IN
    /\ AuthFrame
    /\ login_req' = login_req
    /\ callback_req' = [status |-> status_value, payload |-> payload_token]
    /\ IF status_value # "success" THEN refuse(400, "OA login failed")
       ELSE IF OA_JWT_SECRET = "" THEN refuse(500, "OA JWT secret not configured")
       ELSE IF decoded.code # 200 THEN refuse(decoded.code, decoded.detail)
       ELSE IF decoded.payload.itcode = None \/ decoded.payload.itcode[1] = ""
            THEN refuse(400, "Token missing itcode")
       ELSE LET itcode == decoded.payload.itcode[1]
                session_id == next_session + 1
            IN
            /\ next_session < MaxSessions
            /\ users' = [users EXCEPT ![itcode] =
                            Some(user_doc(@, itcode, decoded.payload, now))]
            /\ sessions' = [sessions EXCEPT ![session_id] = Some(session_doc(itcode, now))]
            /\ next_session' = session_id
            /\ response' = [sessionId |-> <<session_id>>, itcode |-> itcode,
                            user |-> decoded.payload]
            /\ last' = Reply("oa_callback", 200, "ok", 0)

\* sessions.find_one({"sessionId": token})
find_session(token) ==
    IF Len(token) = 1 /\ token[1] \in SessionIds THEN sessions[token[1]] ELSE None

session_expired_at_deadline(expires_at, t) == expires_at # None /\ t >= expires_at[1]

\* expiresAt present, parsed, and datetime.now(timezone.utc) > exp_dt
session_expired(expires_at, t) == expires_at # None /\ t > expires_at[1]

require_login(token) ==
    LET session == find_session(token.value)
        refuse(detail) ==
            /\ last' = Reply("require_login", 401, detail, 0)
            /\ response' = NoResponse
    IN
    /\ AuthFrame
    /\ UNCHANGED <<users, sessions, next_session, callback_req>>
    /\ login_req' = token
    /\ IF ~token.present \/ token.value = <<>> THEN refuse("Missing session token")
       ELSE IF session = None THEN refuse("Invalid session token")
       ELSE IF session_expired(session[1].expiresAt, now) THEN refuse("Session expired")
       ELSE LET user == users[session[1].itcode] IN
            /\ last' = Reply("require_login", 200, "ok", 0)
            /\ response' = [sessionId |-> token.value, itcode |-> session[1].itcode,
                            user |-> IF user = None THEN EmptyObject ELSE user[1].profile]

\* time passes
tick ==
    /\ now + TickDays <= MaxTime
    /\ now' = now + TickDays
    /\ last' = Reply("tick", 0, "clock", 0)
    /\ UNCHANGED <<users, sessions, next_session, OA_JWT_SECRET, login_req,
                   callback_req, response>>

----------------------------------------------------------------------------
(* Audit history: list_audits *)

NoListing ==
    [status |-> {}, firmware_type |-> "", limit |-> 0, offset |-> 0, user_id |-> "",
     items |-> <<>>, total |-> 0]

\* the query of list_audits: a filter is added only for a truthy argument
matching_audits(status, firmware_type, user_id) ==
    {a \in AuditIds :
        /\ audits[a] # None
        /\ status = {} \/ audits[a][1].status \in status
        /\ firmware_type = "" \/ audits[a][1].firmwareType = firmware_type
        /\ user_id = "" \/ audits[a][1].userId = user_id}

\* .sort("createdAt", -1): any order of the documents with createdAt
\* non-increasing; the order among equal createdAt is not fixed by the sort key
sorted_by_createdAt_desc(ids) ==
    {order \in [1..Cardinality(ids) -> ids] :
        /\ \A j, k \in 1..Cardinality(ids) : j # k => order[j] # order[k]
        /\ \A j, k \in 1..Cardinality(ids) :
              j < k => audits[order[j]][1].createdAt >= audits[order[k]][1].createdAt}

\* .skip(offset).limit(limit); a limit of 0 is no limit
skip_limit(order, offset, limit) ==
    SubSeq(order, offset + 1,
           IF limit = 0 \/ offset + limit > Len(order) THEN Len(order) ELSE offset + limit)

list_audits(status, firmware_type, limit, offset, user_id) ==
    LET found == matching_audits(status, firmware_type, user_id) IN
    /\ \E order \in sorted_by_createdAt_desc(found) :
          listing' = [status |-> status, firmware_type |-> firmware_type,
                      limit |-> limit, offset |-> offset, user_id |-> user_id,
                      items |-> skip_limit(order, offset, limit),
                      total |-> Cardinality(found)]
    /\ prev_listing' = listing
    /\ last' = Reply("list_audits", 200, "ok", 0)
    /\ UNCHANGED <<upload_vars, audit_vars, run_vars, auth_vars, record_vars, logs_reply,
                   crud_vars, cli_vars>>

----------------------------------------------------------------------------
(* Audit logs: get_audit_logs *)

\* the empty string, which sorts before every timestamp
EmptyStamp == 0

NoLogs == [audit_id |-> 0, limit |-> 0, since |-> None, items |-> <<>>]

since_filter_inclusive(doc, since) ==
    (since # None /\ since[1] # EmptyStamp) => doc.timestamp >= since[1]

\* if since: query["timestamp"] = {"$gt": since}
since_filter(doc, since) ==
    (since # None /\ since[1] # EmptyStamp) => doc.timestamp > since[1]

\* positions of the documents the query of get_audit_logs selects
matching_logs(audit_id, since) ==
    {k \in 1..Len(audit_logs) :
        /\ audit_logs[k].auditId = audit_id
        /\ since_filter(audit_logs[k], since)}

\* .sort("timestamp", 1): any order with timestamp non-decreasing
sorted_by_timestamp_asc(ks) ==
    {order \in [1..Cardinality(ks) -> ks] :
        /\ \A j, k \in 1..Cardinality(ks) : j # k => order[j] # order[k]
        /\ \A j, k \in 1..Cardinality(ks) :
              j < k => audit_logs[order[j]].timestamp <= audit_logs[order[k]].timestamp}

get_audit_logs(audit_id, limit, since) ==
    /\ \E order \in sorted_by_timestamp_asc(matching_logs(audit_id, since)) :
          logs_reply' = [audit_id |-> audit_id, limit |-> limit, since |-> since,
                         items |-> [k \in DOMAIN skip_limit(order, 0, limit) |->
                                       audit_logs[skip_limit(order, 0, limit)[k]]]]
    /\ last' = Reply("get_audit_logs", 200, "ok", audit_id)
    /\ UNCHANGED <<upload_vars, audit_vars, run_vars, auth_vars, record_vars,
                   listing, prev_listing, crud_vars, cli_vars>>

----------------------------------------------------------------------------
(* Audit report and its PDF file *)

\* documents of audit_checks with this auditId, in find order
checks_of(a) ==
    LET RECURSIVE pick(_)
        pick(k) == IF k > Len(audit_checks) THEN <<>>
                   ELSE IF audit_checks[k].auditId = a
                        THEN <<audit_checks[k]>> \o pick(k + 1)
                        ELSE pick(k + 1)
    IN pick(1)

\* get_audit_report: None when there is no audits document
get_audit_report(a) ==
    IF audits[a] = None THEN None
    ELSE Some([id |-> a,
               timestamp |-> IF audits[a][1].completedAt # "null"
                             THEN audits[a][1].completedAt
                             ELSE audits[a][1].createdAt,
               firmwareType |-> audits[a][1].firmwareType,
               productName |-> audits[a][1].productName,
               version |-> audits[a][1].version,
               summary |-> audits[a][1].summary,
               checks |-> checks_of(a)])

pdf_is_file_never(a) == FALSE

\* pdf_path.is_file() for <report-dir>/<audit-id>.pdf
pdf_is_file(a) == reports[a] # None

\* generate_audit_report_pdf_file: an existing file is returned as it is,
\* otherwise the report is rendered into a new file
generate_audit_report_pdf_file(a, report) ==
    /\ reports' = IF pdf_is_file(a) THEN reports
                  ELSE [reports EXCEPT ![a] = Some(report)]
    /\ last' = Reply("report_pdf", 200, "audit_id.pdf", a)

\* GET /audits/{audit_id}/report.pdf
generate_audit_report_pdf(a) ==
    /\ IF get_audit_report(a) = None
       THEN /\ reports' = reports
            /\ last' = Reply("report_pdf", 404, "Audit not found", a)
       ELSE generate_audit_report_pdf_file(a, get_audit_report(a)[1])
    /\ UNCHANGED <<upload_vars, audit_vars, run_vars, audit_logs, audit_checks>>

----------------------------------------------------------------------------
(* Generic subsystem: schemas, password hashing, bearer tokens *)

UserIds == 1..MaxUsers
ItemIds == 1..MaxItems
Emails == {"a@example.com", "b@example.com"}
Passwords == {"p1", "p2"}

\* a dict restricted to some of its keys
Restrict(dict, keys) == [k \in (DOMAIN dict) \cap keys |-> dict[k]]

\* dict.pop(key)
Pop(dict, key) == [k \in (DOMAIN dict) \ {key} |-> dict[k]]

\* dict[key] = value
Put(dict, key, value) ==
    [k \in (DOMAIN dict) \cup {key} |-> IF k = key THEN value ELSE dict[k]]

\* a pydantic model built from keyword arguments: a missing required field
\* raises ValidationError (None here), other keys than the fields are ignored,
\* a missing optional field takes its default
Validate(fields, required, defaults, kwargs) ==
    IF ~(required \subseteq DOMAIN kwargs) THEN None
    ELSE Some([k \in ((DOMAIN kwargs) \cap fields) \cup DOMAIN defaults |->
                  IF k \in DOMAIN kwargs THEN kwargs[k] ELSE defaults[k]])

\* class UserCreate(UserBase): email, name, is_active = True, password
UserCreate(kwargs) ==
    Validate({"email", "name", "is_active", "password"}, {"email", "name", "password"},
             [is_active |-> TRUE], kwargs)

\* class UserUpdate: every field optional; only the keys given count as set
UserUpdate(kwargs) ==
    Validate({"email", "name", "password", "is_active"}, {}, <<>>, kwargs)

\* class ItemCreate(ItemBase): title, description = None, is_active = True
ItemCreate(kwargs) ==
    Validate({"title", "description", "is_active"}, {"title"},
             [description |-> "null", is_active |-> TRUE], kwargs)

\* class ItemUpdate: every field optional
ItemUpdate(kwargs) ==
    Validate({"title", "description", "is_active"}, {}, <<>>, kwargs)

\* pwd_context.hash: the bcrypt hash of a password, told apart from the password
get_password_hash(password) == <<"bcrypt", password>>

\* pwd_context.verify
verify_password(plain_password, hashed_password) ==
    hashed_password = get_password_hash(plain_password)

\* jwt.encode of {"sub": str(user_id), "exp": utcnow + expires_delta}
create_access_token(user_id, at) ==
    [sub |-> user_id, exp |-> at + ACCESS_TOKEN_EXPIRE_MINUTES, key |-> "SECRET_KEY"]

\* jwt.decode: a bad signature or an expired token is a JWTError
verify_token(token, at) ==
    IF token.key # "SECRET_KEY" \/ token.exp < at THEN None ELSE Some(token.sub)

\* tokens a client can present: issued at any time, or signed with another key
BearerTokens ==
    { create_access_token(u, t) : u \in UserIds, t \in {0, TickMinutes} }
    \cup { [sub |-> 1, exp |-> MaxMinutes + ACCESS_TOKEN_EXPIRE_MINUTES, key |-> "other"] }

----------------------------------------------------------------------------
(* Generic subsystem: repositories over the users and items tables *)

UserColumns == {"email", "name", "hashed_password", "is_active"}
ItemColumns == {"title", "description", "owner_id", "is_active"}

\* BaseRepository.get
get(table, id) == IF id \in DOMAIN table THEN table[id] ELSE None

\* UserRepository.get_by_email: the first row with this email
get_by_email(db, email) ==
    IF \E u \in UserIds : db[u] # None /\ db[u][1].email = email
    THEN db[CHOOSE u \in UserIds : db[u] # None /\ db[u][1].email = email]
    ELSE None

\* UserRepository.authenticate
authenticate(db, email, password) ==
    IF get_by_email(db, email) = None THEN None
    ELSE IF ~verify_password(password, get_by_email(db, email)[1].hashed_password) THEN None
    ELSE get_by_email(db, email)

\* ids the table has not given out
FreeIds(table) == {i \in DOMAIN table : table[i] = None}

\* self.model(**obj_in.model_dump()) then flush: a keyword that is no column is
\* a TypeError, a NOT NULL column without value or default an IntegrityError
\* (both "error"); otherwise the row is inserted under a new id
create(table, columns, not_null, values) ==
    IF ~((DOMAIN values) \subseteq columns) THEN [error |-> "TypeError"]
    ELSE IF ~(not_null \subseteq DOMAIN values) THEN [error |-> "IntegrityError"]
    ELSE [error |-> "none", id |-> CHOOSE i \in FreeIds(table) : \A j \in FreeIds(table) : i <= j]

\* setattr(db_obj, field, value) for every field of model_dump(exclude_unset=True);
\* an attribute that is no column does not reach the table
update(row, columns, update_data) ==
    [k \in DOMAIN row |-> IF k \in (DOMAIN update_data) \cap columns
                          THEN update_data[k] ELSE row[k]]

\* what the response models User and Item show of a row
UserOut(id, row) ==
    [id |-> id, email |-> row.email, name |-> row.name, is_active |-> row.is_active]

ItemOut(id, row) ==
    [id |-> id, title |-> row.title, description |-> row.description,
     owner_id |-> row.owner_id, is_active |-> row.is_active]

----------------------------------------------------------------------------
(* Generic subsystem: services and endpoints.  The detail strings of the
   responses are given in English. *)

NoToken == [sub |-> 0, exp |-> 0, key |-> "none"]

NoRequest == [token |-> NoToken, body |-> <<>>]

\* one request and its response; an exception that is not an HTTPException is
\* a 500 after get_db has rolled the session back
Respond(op, id, token, body, code, detail, out) ==
    /\ last' = Reply(op, code, detail, id)
    /\ crud_req' = [token |-> token, body |-> body]
    /\ crud_body' = out

\* get_current_user, then get_current_active_user
get_current_active_user(token) ==
    LET user_id == verify_token(token, utcnow) IN
    IF user_id = None
    THEN [code |-> 401, detail |-> "could not validate credentials", id |-> 0]
    ELSE IF get(db_users, user_id[1]) = None
    THEN [code |-> 401, detail |-> "could not validate credentials", id |-> 0]
    ELSE IF ~get(db_users, user_id[1])[1].is_active
    THEN [code |-> 400, detail |-> "user account disabled", id |-> 0]
    ELSE [code |-> 200, detail |-> "ok", id |-> user_id[1]]

\* UserService.create_user
create_user(user_in) ==
    IF get_by_email(db_users, user_in.email) # None
    THEN [error |-> "ValueError", detail |-> "email already registered"]
    ELSE LET user_dict == Put(Pop(user_in, "password"), "hashed_password",
                              get_password_hash(user_in.password))
             obj_in == UserCreate(user_dict)
         IN IF obj_in = None
            THEN \* ValidationError is a ValueError
                 [error |-> "ValueError", detail |-> "password: Field required"]
            ELSE LET made == create(db_users, UserColumns, {"email", "hashed_password"},
                                    obj_in[1])
                 IN IF made.error # "none"
                    THEN [error |-> made.error, detail |-> "Internal Server Error"]
                    ELSE [error |-> "none", id |-> made.id, row |-> obj_in[1]]

\* POST /auth/register
register(body) ==
    LET made == create_user(UserCreate(body)[1]) IN
    /\ IF made.error = "none"
       THEN /\ db_users' = [db_users EXCEPT ![made.id] = Some(made.row)]
            /\ Respond("register", made.id, NoToken, body, 201, "ok",
                       Some(UserOut(made.id, made.row)))
       ELSE /\ db_users' = db_users
            /\ Respond("register", 0, NoToken, body,
                       IF made.error = "ValueError" THEN 400 ELSE 500, made.detail, None)
    /\ UNCHANGED <<db_items, utcnow>>

\* POST /auth/login
login(body) ==
    LET user == authenticate(db_users, body.username, body.password)
        id == CHOOSE u \in UserIds : db_users[u] = user
    IN
    /\ IF user = None
       THEN Respond("login", 0, NoToken, body, 401, "wrong email or password", None)
       ELSE IF ~user[1].is_active
       THEN Respond("login", id, NoToken, body, 400, "user account disabled", None)
       ELSE Respond("login", id, NoToken, body, 200, "ok",
                    Some([access_token |-> create_access_token(id, utcnow),
                          token_type |-> "bearer"]))
    /\ UNCHANGED <<db_users, db_items, utcnow>>

\* GET /users/me
read_users_me(token) ==
    LET current_user == get_current_active_user(token) IN
    /\ IF current_user.code # 200
       THEN Respond("me", 0, token, <<>>, current_user.code, current_user.detail, None)
       ELSE Respond("me", current_user.id, token, <<>>, 200, "ok",
                    Some(UserOut(current_user.id, db_users[current_user.id][1])))
    /\ UNCHANGED <<db_users, db_items, utcnow>>

\* GET /users/{user_id}
read_user(token, user_id) ==
    LET current_user == get_current_active_user(token) IN
    /\ IF current_user.code # 200
       THEN Respond("read_user", user_id, token, <<>>, current_user.code,
                    current_user.detail, None)
       ELSE IF get(db_users, user_id) = None
       THEN Respond("read_user", user_id, token, <<>>, 404, "user not found", None)
       ELSE Respond("read_user", user_id, token, <<>>, 200, "ok",
                    Some(UserOut(user_id, db_users[user_id][1])))
    /\ UNCHANGED <<db_users, db_items, utcnow>>

\* UserService.update_user on an existing row: the row after repository.update
update_user_row(row, user_in) ==
    IF "password" \in DOMAIN user_in /\ user_in.password # ""
    THEN LET user_dict == Put(Pop(user_in, "password"), "hashed_password",
                              get_password_hash(user_in.password))
         IN update(row, UserColumns, UserUpdate(user_dict)[1])
    ELSE update(row, UserColumns, user_in)

\* the unique index on users.email
email_taken_by_other(user_id, row) ==
    \E u \in UserIds \ {user_id} : db_users[u] # None /\ db_users[u][1].email = row.email

\* PATCH /users/{user_id}
update_user(token, user_id, body) ==
    LET current_user == get_current_active_user(token)
        row == update_user_row(db_users[user_id][1], UserUpdate(body)[1])
    IN
    /\ IF current_user.code # 200
       THEN /\ db_users' = db_users
            /\ Respond("update_user", user_id, token, body, current_user.code,
                       current_user.detail, None)
       ELSE IF current_user.id # user_id
       THEN /\ db_users' = db_users
            /\ Respond("update_user", user_id, token, body, 403, "not enough permissions", None)
       ELSE IF email_taken_by_other(user_id, row)
       THEN /\ db_users' = db_users
            /\ Respond("update_user", user_id, token, body, 500,
                       "Internal Server Error", None)
       ELSE /\ db_users' = [db_users EXCEPT ![user_id] = Some(row)]
            /\ Respond("update_user", user_id, token, body, 200, "ok",
                       Some(UserOut(user_id, row)))
    /\ UNCHANGED <<db_items, utcnow>>

items_of(user_id) ==
    {i \in ItemIds : db_items[i] # None /\ db_items[i][1].owner_id = user_id}

\* DELETE /users/{user_id}; what becomes of the items of a deleted user is
\* decided by the relationship of the User model: they go with the user, or the
\* delete fails on items.owner_id
delete_user(token, user_id) ==
    LET current_user == get_current_active_user(token) IN
    /\ IF current_user.code # 200
       THEN /\ UNCHANGED <<db_users, db_items>>
            /\ Respond("delete_user", user_id, token, <<>>, current_user.code,
                       current_user.detail, None)
       ELSE IF current_user.id # user_id
       THEN /\ UNCHANGED <<db_users, db_items>>
            /\ Respond("delete_user", user_id, token, <<>>, 403, "not enough permissions", None)
       ELSE \/ /\ db_users' = [db_users EXCEPT ![user_id] = None]
               /\ db_items' = [i \in ItemIds |->
                                 IF i \in items_of(user_id) THEN None ELSE db_items[i]]
               /\ Respond("delete_user", user_id, token, <<>>, 204, "ok", None)
            \/ /\ items_of(user_id) # {}
               /\ UNCHANGED <<db_users, db_items>>
               /\ Respond("delete_user", user_id, token, <<>>, 500,
                          "Internal Server Error", None)
    /\ UNCHANGED utcnow

\* ItemService.create_item
create_item_row(item_in, owner_id) ==
    LET item_dict == Put(item_in, "owner_id", owner_id)
        obj_in == ItemCreate(item_dict)
        made == create(db_items, ItemColumns, {"title", "owner_id"}, obj_in[1])
    IN IF made.error # "none"
       THEN [error |-> made.error]
       ELSE [error |-> "none", id |-> made.id, row |-> obj_in[1]]

\* POST /items/
create_item(token, body) ==
    LET current_user == get_current_active_user(token)
        made == create_item_row(ItemCreate(body)[1], current_user.id)
    IN
    /\ IF current_user.code # 200
       THEN /\ db_items' = db_items
            /\ Respond("create_item", 0, token, body, current_user.code,
                       current_user.detail, None)
       ELSE IF made.error # "none"
       THEN /\ db_items' = db_items
            /\ Respond("create_item", 0, token, body, 500, "Internal Server Error", None)
       ELSE /\ db_items' = [db_items EXCEPT ![made.id] = Some(made.row)]
            /\ Respond("create_item", made.id, token, body, 201, "ok",
                       Some(ItemOut(made.id, made.row)))
    /\ UNCHANGED <<db_users, utcnow>>

\* GET /items/{item_id}
read_item(token, item_id) ==
    LET current_user == get_current_active_user(token) IN
    /\ IF current_user.code # 200
       THEN Respond("read_item", item_id, token, <<>>, current_user.code,
                    current_user.detail, None)
       ELSE IF get(db_items, item_id) = None
       THEN Respond("read_item", item_id, token, <<>>, 404, "item not found", None)
       ELSE Respond("read_item", item_id, token, <<>>, 200, "ok",
                    Some(ItemOut(item_id, db_items[item_id][1])))
    /\ UNCHANGED <<db_users, db_items, utcnow>>

owner_anyone(item_id, user_id) == TRUE

\* item.owner_id != current_user.id raises 403
owner(item_id, user_id) == db_items[item_id][1].owner_id = user_id

\* PATCH /items/{item_id}
update_item(token, item_id, body) ==
    LET current_user == get_current_active_user(token) IN
    /\ IF current_user.code # 200
       THEN /\ db_items' = db_items
            /\ Respond("update_item", item_id, token, body, current_user.code,
                       current_user.detail, None)
       ELSE IF get(db_items, item_id) = None
       THEN /\ db_items' = db_items
            /\ Respond("update_item", item_id, token, body, 404, "item not found", None)
       ELSE IF ~owner(item_id, current_user.id)
       THEN /\ db_items' = db_items
            /\ Respond("update_item", item_id, token, body, 403, "not enough permissions", None)
       ELSE LET row == update(db_items[item_id][1], ItemColumns, ItemUpdate(body)[1]) IN
            /\ db_items' = [db_items EXCEPT ![item_id] = Some(row)]
            /\ Respond("update_item", item_id, token, body, 200, "ok",
                       Some(ItemOut(item_id, row)))
    /\ UNCHANGED <<db_users, utcnow>>

\* DELETE /items/{item_id}
delete_item(token, item_id) ==
    LET current_user == get_current_active_user(token) IN
    /\ IF current_user.code # 200
       THEN /\ db_items' = db_items
            /\ Respond("delete_item", item_id, token, <<>>, current_user.code,
                       current_user.detail, None)
       ELSE IF get(db_items, item_id) = None
       THEN /\ db_items' = db_items
            /\ Respond("delete_item", item_id, token, <<>>, 404, "item not found", None)
       ELSE IF ~owner(item_id, current_user.id)
       THEN /\ db_items' = db_items
            /\ Respond("delete_item", item_id, token, <<>>, 403, "not enough permissions", None)
       ELSE /\ db_items' = [db_items EXCEPT ![item_id] = None]
            /\ Respond("delete_item", item_id, token, <<>>, 204, "ok", None)
    /\ UNCHANGED <<db_users, utcnow>>

\* datetime.utcnow() moves on
tick_minutes ==
    /\ utcnow < MaxMinutes
    /\ utcnow' = utcnow + TickMinutes
    /\ last' = Reply("tick_minutes", 0, "ok", 0)
    /\ UNCHANGED <<db_users, db_items, crud_req, crud_body>>

----------------------------------------------------------------------------
InitRest ==
    /\ audit_uploads = [u \in UploadIds |-> None]
    /\ chunk_dirs = [u \in UploadIds |-> FALSE]
    /\ parts = [u \in UploadIds |-> [i \in ChunkIdx |-> None]]
    /\ inflight = [s \in Slots |-> IdleSlot]
    /\ files = [a \in AuditIds |-> None]
    /\ jobs = {}
    /\ next_audit = 0
    /\ next_upload = 0
    /\ finalized = [u \in UploadIds |-> {}]
    /\ caller = "nobody"
    /\ stored = [a \in AuditIds |-> None]
    /\ orch = [a \in AuditIds |-> "none"]
    /\ proc = [a \in AuditIds |-> "none"]
    /\ STATS = [a \in AuditIds |-> ZeroSummary]
    /\ asserts = [a \in AuditIds |-> <<>>]
    /\ engine_wrote = [a \in AuditIds |-> "none"]
    /\ orch_wrote = [a \in AuditIds |-> FALSE]
    /\ db_failed = [a \in AuditIds |-> FALSE]
    /\ users = [i \in Itcodes |-> None]
    /\ sessions = [k \in SessionIds |-> None]
    /\ next_session = 0
    /\ now = 0
    /\ login_req = [present |-> FALSE, value |-> <<>>]
    /\ callback_req = [status |-> "none", payload |-> <<>>]
    /\ response = NoResponse
    /\ audit_checks = <<>>
    /\ reports = [a \in AuditIds |-> None]
    /\ logs_reply = NoLogs
    /\ listing = NoListing
    /\ utcnow = 0
    /\ crud_req = NoRequest
    /\ crud_body = None
    /\ prev_listing = NoListing
    /\ FIRMWARE_ZIP = None
    /\ globals = None
    /\ WORK_DIR = "absent"
    /\ temp_files = 0
    /\ invoked = <<>>
    /\ naming = <<>>
    /\ main = "python"
    /\ last = Reply("none", 0, "none", 0)

\* every collection and directory empty
EmptyTables ==
    /\ db_users = [u \in UserIds |-> None]
    /\ db_items = [i \in ItemIds |-> None]

InitStores ==
    /\ audits = [a \in AuditIds |-> None]
    /\ audit_logs = <<>>
    /\ EmptyTables
    /\ InitRest

\* the services start on empty collections, with the secret configured
Init == InitStores /\ OA_JWT_SECRET = "k"

\* OA_JWT_SECRET comes from the environment and may be set empty
InitAuth == InitStores /\ OA_JWT_SECRET \in {"", "k"}

\* POST /audits/chunk-init: user_id is the caller's itcode
ChunkInit ==
    /\ \E m \in Metas, n \in 0..MaxChunks, ok \in BOOLEAN :
          /\ init_chunked_audit_upload(m, n, ok)
          /\ caller' = m.userId
    /\ UNCHANGED outside_upload

\* POST /audits/chunk: current_user is resolved and not passed on
AppendBegin ==
    /\ \E s \in Slots, u \in UploadIds, i \in (-1)..MaxChunks, n \in 1..MaxChunks,
          b \in Bodies :
          append_chunk_to_upload(s, u, i, n, b)
    /\ \E current_user \in Itcodes : caller' = current_user
    /\ UNCHANGED outside_upload

AppendWrite ==
    /\ \E s \in Slots : append_write(s)
    /\ caller' = caller
    /\ UNCHANGED outside_upload

AppendDone ==
    /\ \E s \in Slots : append_done(s)
    /\ caller' = caller
    /\ UNCHANGED outside_upload

AppendFailed ==
    /\ \E s \in Slots : append_failed(s)
    /\ caller' = caller
    /\ UNCHANGED outside_upload

\* POST /audits/chunk-complete: current_user is resolved and not passed on
\* here the unlink of a failed attempt's file goes through; FinalizeOrLeave
\* below takes its failure in
Finalize ==
    /\ \E u \in UploadIds : finalize_chunked_audit_upload(u, FALSE)
    /\ \E current_user \in Itcodes : caller' = current_user
    /\ UNCHANGED outside_upload

NextUpload ==
    \/ ChunkInit
    \/ AppendBegin
    \/ AppendWrite
    \/ AppendDone
    \/ AppendFailed
    \/ Finalize

\* the chunked-upload endpoints
SpecUpload == Init /\ [][NextUpload]_vars

\* POST /audits/chunk-complete, the unlink of a failed attempt's file raising
\* or not
FinalizeOrLeave ==
    /\ \E u \in UploadIds, unlink_raises \in BOOLEAN :
          finalize_chunked_audit_upload(u, unlink_raises)
    /\ \E current_user \in Itcodes : caller' = current_user
    /\ UNCHANGED outside_upload

\* every request comes from one user
OneCaller == caller' = "alice"

NextAppend ==
    \/ ChunkInit /\ OneCaller
    \/ AppendBegin /\ OneCaller
    \/ AppendWrite /\ OneCaller
    \/ AppendDone /\ OneCaller
    \/ AppendFailed /\ OneCaller
    \/ Finalize /\ OneCaller

\* the chunked-upload endpoints as one user drives them
SpecAppend == Init /\ [][NextAppend]_vars

\* one user, whose requests pass the checks of the endpoints
OneUploader == OneCaller /\ last'.code \notin {400, 404}

NextRetry ==
    \/ ChunkInit /\ OneUploader
    \/ AppendBegin /\ OneUploader
    \/ AppendWrite /\ OneUploader
    \/ AppendDone /\ OneUploader
    \/ AppendFailed /\ OneUploader
    \/ FinalizeOrLeave /\ OneUploader

\* the chunked-upload endpoints as one user drives them, a failed finalize
\* leaving its file behind or not
SpecRetry == Init /\ [][NextRetry]_vars

CreateAudit ==
    /\ \E f \in UploadFiles, m \in Metas : create_audit(f, m)
    /\ UNCHANGED <<outside_service, record_vars>>

GetAudit ==
    /\ \E a \in AuditIds : get_audit(a)
    /\ UNCHANGED <<outside_service, record_vars>>

RunCheckScript ==
    /\ \E a \in AuditIds : run_check_script(a)
    /\ UNCHANGED <<outside_service, record_vars>>

ScriptTimeout ==
    /\ \E a \in AuditIds : script_timeout(a)
    /\ UNCHANGED <<outside_service, record_vars>>

ScriptExited ==
    /\ \E a \in AuditIds : script_exited(a)
    /\ UNCHANGED <<outside_service, record_vars>>

EngineStart ==
    /\ \E a \in AuditIds : engine_start(a)
    /\ UNCHANGED <<outside_service, record_vars>>

LogAssert ==
    /\ \E a \in AuditIds, condition \in BOOLEAN, fail_level \in {"ERROR", "WARNING"} :
          log_assert(a, condition, fail_level)
    /\ UNCHANGED <<outside_service, reports>>

EngineTestsDone ==
    /\ \E a \in AuditIds : engine_tests_done(a)
    /\ UNCHANGED <<outside_service, record_vars>>

FinalizeAudit ==
    /\ \E a \in AuditIds : finalize_audit(a)
    /\ UNCHANGED <<outside_service, record_vars>>

EngineExit ==
    /\ \E a \in AuditIds : engine_exit(a)
    /\ UNCHANGED <<outside_service, record_vars>>

\* any audit id of the path, known or not
GenerateReportPdf ==
    /\ \E a \in AuditIds : generate_audit_report_pdf(a)
    /\ UNCHANGED outside_service

NextService ==
    \/ GenerateReportPdf
    \/ CreateAudit
    \/ GetAudit
    \/ RunCheckScript
    \/ ScriptTimeout
    \/ ScriptExited
    \/ EngineStart
    \/ LogAssert
    \/ EngineTestsDone
    \/ FinalizeAudit
    \/ EngineExit

\* direct upload, the background job and its rule-engine subprocess
SpecService == Init /\ [][NextService]_vars

\* callback bodies: every token with status "success", one with another status
CallbackBodies ==
    { [status |-> "success", payload |-> t] : t \in Tokens }
    \cup { [status |-> "failed",
            payload |-> <<"h", GoodSeg, [mac |-> Some(Hmac("k", <<"h", GoodSeg>>))]>>] }

OaCallback ==
    /\ \E body \in CallbackBodies : handle_oa_callback(body.status, body.payload)
    /\ UNCHANGED outside_auth

RequireLogin ==
    /\ \E token \in SessionTokens : require_login(token)
    /\ UNCHANGED outside_auth

Tick ==
    /\ tick
    /\ UNCHANGED outside_auth

NextAuth ==
    \/ OaCallback
    \/ RequireLogin
    \/ Tick

\* the OA callback and the session check of every other endpoint
SpecAuth == InitAuth /\ [][NextAuth]_vars

\* audits documents as they stand after any number of uploads and runs:
\* createdAt is the acceptance time, or the rule engine's start time to the second
ListDocs ==
    { [audit_doc(m) EXCEPT !.status = st, !.firmwareType = fw, !.createdAt = t] :
          m \in {x \in Metas : x.userId = "alice"}, st \in {"PENDING", "COMPLETED"},
          fw \in {"BMC", "BIOS"}, t \in 1..MaxStamp }
    \cup { [audit_doc(m) EXCEPT !.createdAt = 1] : m \in {x \in Metas : x.userId = "bob"} }

InitList ==
    /\ audits \in [AuditIds -> {None} \cup {Some(doc) : doc \in ListDocs}]
    /\ audit_logs = <<>>
    /\ EmptyTables
    /\ InitRest
    /\ OA_JWT_SECRET = "k"

\* GET /audits: limit is 1..100, offset >= 0, user_id is the caller's itcode
ListAudits ==
    \E status \in {{}, {"PENDING"}}, firmware_type \in {"", "BMC"},
       limit \in 1..MaxLimit, offset \in 0..MaxOffset :
        list_audits(status, firmware_type, limit, offset, "alice")

NextList == ListAudits

\* the audit history query over a collection that does not change
SpecList == InitList /\ [][NextList]_vars

\* audit_logs documents of any audits in any insertion order
LogDocs ==
    { log_doc(a, ts, "success") : a \in AuditIds, ts \in 1..MaxLogStamp }

Collections(docs, n) == UNION { [1..k -> docs] : k \in 0..n }

InitLogs ==
    /\ audits = [a \in AuditIds |-> None]
    /\ audit_logs \in Collections(LogDocs, MaxLogs)
    /\ EmptyTables
    /\ InitRest
    /\ OA_JWT_SECRET = "k"

\* GET /audits/{audit_id}/logs: limit is 1..1000, since is optional
GetAuditLogs ==
    \E audit_id \in AuditIds, limit \in 1..MaxLimit,
       since \in {None} \cup {Some(t) : t \in EmptyStamp..MaxLogStamp} :
        get_audit_logs(audit_id, limit, since)

NextLogs == GetAuditLogs

\* the log query over a collection that does not change
SpecLogs == InitLogs /\ [][NextLogs]_vars

\* rows the relational store holds when the service starts
SeedUser(email, password, is_active) ==
    [email |-> email, name |-> "N", hashed_password |-> get_password_hash(password),
     is_active |-> is_active]

SeedItem(owner_id) ==
    [title |-> "T", description |-> "D", owner_id |-> owner_id, is_active |-> TRUE]

SeedUsers ==
    { [u \in UserIds |-> None],
      [u \in UserIds |-> IF u = 1 THEN Some(SeedUser("a@example.com", "p1", TRUE)) ELSE None] }
    \cup { [u \in UserIds |->
              IF u = 1 THEN Some(SeedUser("a@example.com", "p1", TRUE))
              ELSE IF u = 2 THEN Some(SeedUser("b@example.com", "p2", active))
              ELSE None] : active \in BOOLEAN }

\* items.owner_id is a foreign key to users.id
SeedItems(owners) ==
    { rows \in [ItemIds -> {None} \cup {Some(SeedItem(u)) : u \in {1, 2}}] :
        \A i \in ItemIds : rows[i] # None => (i = rows[i][1].owner_id /\ owners[i] # None) }

InitCrud ==
    /\ audits = [a \in AuditIds |-> None]
    /\ audit_logs = <<>>
    /\ db_users \in SeedUsers
    /\ db_items \in SeedItems(db_users)
    /\ InitRest
    /\ OA_JWT_SECRET = "k"

outside_crud == <<upload_vars, audit_vars, run_vars, auth_vars, record_vars, query_vars,
                  cli_vars>>

Register ==
    /\ \E email \in Emails, password \in Passwords :
          register([email |-> email, password |-> password, name |-> "N"])
    /\ UNCHANGED outside_crud

Login ==
    /\ \E username \in Emails, password \in Passwords :
          login([username |-> username, password |-> password])
    /\ UNCHANGED outside_crud

ReadUsersMe ==
    /\ \E token \in BearerTokens : read_users_me(token)
    /\ UNCHANGED outside_crud

ReadUser ==
    /\ \E token \in BearerTokens, user_id \in UserIds : read_user(token, user_id)
    /\ UNCHANGED outside_crud

UserUpdates == { [password |-> "p2"], [name |-> "N2"], [email |-> "b@example.com"] }

UpdateUser ==
    /\ \E token \in BearerTokens, user_id \in UserIds, body \in UserUpdates :
          update_user(token, user_id, body)
    /\ UNCHANGED outside_crud

DeleteUser ==
    /\ \E token \in BearerTokens, user_id \in UserIds : delete_user(token, user_id)
    /\ UNCHANGED outside_crud

CreateItem ==
    /\ \E token \in BearerTokens :
          create_item(token, [title |-> "T", description |-> "D"])
    /\ UNCHANGED outside_crud

ReadItem ==
    /\ \E token \in BearerTokens, item_id \in ItemIds : read_item(token, item_id)
    /\ UNCHANGED outside_crud

UpdateItem ==
    /\ \E token \in BearerTokens, item_id \in ItemIds :
          update_item(token, item_id, [title |-> "T2"])
    /\ UNCHANGED outside_crud

DeleteItem ==
    /\ \E token \in BearerTokens, item_id \in ItemIds : delete_item(token, item_id)
    /\ UNCHANGED outside_crud

TickMinute ==
    /\ tick_minutes
    /\ UNCHANGED outside_crud

NextCrud ==
    \/ Register
    \/ Login
    \/ ReadUsersMe
    \/ ReadUser
    \/ UpdateUser
    \/ DeleteUser
    \/ CreateItem
    \/ ReadItem
    \/ UpdateItem
    \/ DeleteItem
    \/ TickMinute

\* the generic subsystem over a relational store that may hold rows
SpecCrud == InitCrud /\ [][NextCrud]_vars

----------------------------------------------------------------------------
(* Chunked upload: properties *)

FinalizeStep(u) == last'.op = "finalize" /\ last'.id = u

SomePartAbsent(u) ==
    \E i \in 0..(audit_uploads[u][1].totalChunks - 1) : parts[u][i] = None

RejectedFrame ==
    UNCHANGED <<audits, files, jobs, next_audit, audit_uploads, parts, chunk_dirs,
                inflight, finalized>>

\* C2, as claimed: a finalize of a session one of whose parts 0..N-1 is absent is
\* rejected with 400 "Missing chunk", creates no audit, schedules no job and
\* leaves the session metadata and the stored parts unchanged.
C2_MissingChunkAlways400 ==
    [][\A u \in UploadIds :
          (FinalizeStep(u) /\ audit_uploads[u] # None /\ SomePartAbsent(u))
          => /\ last'.code = 400
             /\ last'.detail = "Missing chunk"
             /\ RejectedFrame]_vars

\* C2, amended: such a finalize is always rejected and changes nothing; the
\* rejection is 400 "Missing chunk" while the session directory exists and 404
\* "Upload directory not found" once an earlier finalize has removed the
\* directory but could not delete the metadata document.
C2_MissingChunkRejected ==
    [][\A u \in UploadIds :
          (FinalizeStep(u) /\ audit_uploads[u] # None /\ SomePartAbsent(u))
          => /\ IF chunk_dirs[u]
                THEN last'.code = 400 /\ last'.detail = "Missing chunk"
                ELSE last'.code = 404 /\ last'.detail = "Upload directory not found"
             /\ RejectedFrame]_vars

\* a session of two chunks holding only chunk 1 has just been refused
C2_Witness ==
    \E u \in UploadIds :
        /\ last = Reply("finalize", 400, "Missing chunk", u)
        /\ audit_uploads[u] # None
        /\ audit_uploads[u][1].totalChunks = 2
        /\ parts[u][0] = None
        /\ parts[u][1] # None

RECURSIVE Offset(_, _)
\* the number of bytes stored in the parts below index i
Offset(ps, i) == IF i = 0 THEN 0 ELSE Offset(ps, i - 1) + Len(ps[i - 1][1])

\* file holds the bytes of part 0, then of part 1, ..., then of part n-1
InIndexOrder(file, ps, n) ==
    /\ Len(file) = Offset(ps, n)
    /\ \A i \in 0..(n - 1) :
          \A k \in 1..Len(ps[i][1]) : file[Offset(ps, i) + k] = ps[i][1][k]

\* C3: a successful finalize writes exactly one file, the stored parts
\* concatenated in ascending index order, and exactly one PENDING audit with the
\* session's fields, and schedules its job; an append that completes without
\* another request having touched its part leaves exactly its body in the part
\* (the last append for an index wins).
C3_AssembledInIndexOrder ==
    [][/\ \A u \in UploadIds :
             (FinalizeStep(u) /\ last'.code = 201)
             => LET a == next_audit'
                    m == audit_uploads[u][1]
                IN
                /\ next_audit' = next_audit + 1
                /\ audits[a] = None /\ files[a] = None
                /\ files'[a] # None
                /\ InIndexOrder(files'[a][1], parts[u], m.totalChunks)
                /\ \A b \in AuditIds \ {a} : audits'[b] = audits[b] /\ files'[b] = files[b]
                /\ audits'[a] # None
                /\ audits'[a][1].status = "PENDING"
                /\ audits'[a][1].summary = ZeroSummary
                /\ audits'[a][1].firmwareType = m.firmwareType
                /\ audits'[a][1].productName = m.productName
                /\ audits'[a][1].version = m.version
                /\ audits'[a][1].checkScript = m.checkScript
                /\ audits'[a][1].userId = m.userId
                /\ jobs' = jobs \cup {a}
       /\ \A s \in Slots :
             (/\ last'.op = "append_done"
              /\ inflight[s].st = "writing" /\ inflight'[s].st = "idle"
              /\ inflight[s].linked /\ inflight[s].sole)
             => parts'[inflight[s].u][inflight[s].i] = Some(inflight[s].body)]_vars

\* two chunks of different lengths have been assembled, chunk 0 first
C3_Witness ==
    \E u \in UploadIds :
        /\ last = Reply("finalize", 201, "PENDING", u)
        /\ next_audit \in AuditIds
        /\ files[next_audit] = Some(<<2, 3, 1>>)
        /\ audits[next_audit] # None

\* C4, as claimed: after a successful finalize the metadata document, the
\* directory and the parts are gone, and every later append or finalize with
\* that upload id returns 404 and creates no audit.
C4_SessionGoneAfterFinalize ==
    [][\A u \in UploadIds :
          /\ (FinalizeStep(u) /\ last'.code = 201)
             => /\ audit_uploads'[u] = None
                /\ ~chunk_dirs'[u]
                /\ \A i \in ChunkIdx : parts'[u][i] = None
          /\ (finalized[u] # {} /\ last'.op \in {"append", "finalize"} /\ last'.id = u)
             => (last'.code = 404 /\ audits' = audits)]_vars

\* C4, amended: the cleanup is best-effort. Once a session has been finalized
\* and its metadata document or its directory is gone, every later append or
\* finalize with that upload id is rejected and changes nothing: with 404, or,
\* while the metadata document remains, with 400 for an append whose declared
\* count or index is invalid.
C4_GoneSessionRejects ==
    [][\A u \in UploadIds :
          (/\ finalized[u] # {}
           /\ audit_uploads[u] = None \/ ~chunk_dirs[u]
           /\ last'.op \in {"append", "finalize"}
           /\ last'.id = u)
          => /\ \/ last'.code = 404
                \/ /\ last'.code = 400
                   /\ last'.op = "append"
                   /\ audit_uploads[u] # None
                   /\ last'.detail \in {"Chunk count mismatch", "Invalid chunk index"}
             /\ RejectedFrame]_vars

\* a finalized session whose cleanup went through has refused a second finalize
C4_Witness ==
    \E u \in UploadIds :
        /\ finalized[u] # {}
        /\ audit_uploads[u] = None
        /\ ~chunk_dirs[u]
        /\ last = Reply("finalize", 404, "Upload session not found", u)

----------------------------------------------------------------------------
(* Direct upload and the background job: properties *)

JobHasWritten(a) == engine_wrote[a] # "none" \/ orch_wrote[a]

\* C1: get_audit answers 404 for an id that was never created; a create_audit
\* that accepts the file leaves a document with status PENDING and a zero
\* summary under the id it returns; and get_audit answers PENDING for an
\* accepted audit as long as neither the rule engine nor run_check_script has
\* written to its document.
C1_PendingUntilJobWrites ==
    [][ /\ \A a \in AuditIds : a > next_audit => audits[a] = None
        /\ (last'.op = "create_audit" /\ last'.code = 201) =>
              /\ last'.id = next_audit'
              /\ audits[last'.id] = None
              /\ audits'[last'.id] # None
              /\ audits'[last'.id][1].status = "PENDING"
              /\ audits'[last'.id][1].summary =
                    [total |-> 0, passed |-> 0, warning |-> 0, failed |-> 0]
        /\ last'.op = "get_audit" =>
              IF last'.id > next_audit
              THEN last'.code = 404
              ELSE ~JobHasWritten(last'.id) =>
                      last'.code = 200 /\ last'.detail = "PENDING" ]_vars

\* an accepted audit is read as PENDING while its rule engine is running checks
C1_Witness ==
    /\ last = Reply("get_audit", 200, "PENDING", 1)
    /\ proc[1] = "testing"
    /\ STATS[1].total > 0

ProcessFailures == {"script missing", "non-zero exit", "timeout", "invocation exception"}

OrchestratorStep(a) == last'.op = "run_check_script" /\ last'.id = a

MarkedFailed(a) ==
    /\ audits'[a] # None
    /\ audits'[a][1].status = "FAILED"
    /\ audits'[a][1].completedAt = "failed_utc_iso"
    /\ audits'[a][1].errorMessage = last'.detail
    /\ audits'[a][1].errorMessage \notin {"", "absent"}

\* C5 as stated: each of the four process-level failures of run_check_script
\* leaves the audit FAILED with completedAt and a non-empty errorMessage, and a
\* zero exit writes nothing.
C5_FailureAlwaysMarked ==
    [][ \A a \in AuditIds :
          /\ (OrchestratorStep(a) /\ last'.detail \in ProcessFailures) => MarkedFailed(a)
          /\ (OrchestratorStep(a) /\ last'.detail = "zero exit") => audits' = audits ]_vars

\* C5: each of the four process-level failures of run_check_script makes one
\* attempt to mark the audit: either the document becomes FAILED with
\* completedAt and the non-empty reason, or the update raised, the exception was
\* dropped and the document is as it was. A zero exit writes nothing.
C5_FailureMarkedBestEffort ==
    [][ \A a \in AuditIds :
          /\ (OrchestratorStep(a) /\ last'.detail \in ProcessFailures) =>
                \/ MarkedFailed(a) /\ orch_wrote'[a]
                \/ audits' = audits /\ db_failed'[a]
          /\ (OrchestratorStep(a) /\ last'.detail = "zero exit") => audits' = audits ]_vars

\* a timed-out run has been marked FAILED with its reason
C5_Witness ==
    /\ last = Reply("run_check_script", 0, "timeout", 1)
    /\ proc[1] = "killed"
    /\ audits[1] # None
    /\ audits[1][1].status = "FAILED"
    /\ audits[1][1].errorMessage = "timeout"

\* C6: once finalize_audit has written COMPLETED for an audit, no step of
\* run_check_script changes that audit's status.
C6_CompletedNeverOverwritten ==
    [][ \A a \in AuditIds :
          (engine_wrote[a] = "COMPLETED" /\ OrchestratorStep(a)) =>
              audits'[a][1].status = audits[a][1].status ]_vars

\* C7: with no database call of the job having failed, an audit whose
\* run_check_script has returned is COMPLETED or FAILED.
C7_ReturnedJobIsTerminal ==
    \A a \in AuditIds :
        (orch[a] = "returned" /\ ~db_failed[a] /\ audits[a] # None) =>
            audits[a][1].status \in {"COMPLETED", "FAILED"}

HardFailures(a) ==
    {k \in 1..Len(asserts[a]) : ~asserts[a][k][1] /\ asserts[a][k][2] # "WARNING"}

Warnings(a) == {k \in 1..Len(asserts[a]) : asserts[a][k][2] = "WARNING"}

\* C8: the status finalize_audit writes is FAILED exactly when some log_assert
\* of the run failed at a level other than WARNING, and COMPLETED otherwise; the
\* summary it writes is the run's tally: every assert in total, the failed
\* non-warning ones in failed, the warning-level ones in warning, the rest in
\* passed.
C8_FailedIffHardFailure ==
    [][ \A a \in AuditIds :
          (last'.op = "engine" /\ last'.detail = "finalize_audit" /\ last'.id = a) =>
              /\ audits'[a][1].status = (IF HardFailures(a) # {} THEN "FAILED" ELSE "COMPLETED")
              /\ audits'[a][1].summary = STATS[a]
              /\ STATS[a].total = Len(asserts[a])
              /\ STATS[a].failed = Cardinality(HardFailures(a))
              /\ STATS[a].warning = Cardinality(Warnings(a))
              /\ STATS[a].passed = STATS[a].total - STATS[a].failed - STATS[a].warning ]_vars

\* a run whose only failed assert was a warning has been written as COMPLETED
C8_Witness ==
    /\ last = Reply("engine", 0, "finalize_audit", 1)
    /\ \E k \in 1..Len(asserts[1]) : ~asserts[1][k][1] /\ asserts[1][k][2] = "WARNING"
    /\ audits[1][1].status = "COMPLETED"
    /\ audits[1][1].summary.warning > 0

----------------------------------------------------------------------------
(* Sessions: properties *)

StoredSession(t) ==
    IF t.present /\ Len(t.value) = 1 /\ t.value[1] \in 1..next_session
    THEN sessions[t.value[1]]
    ELSE None

\* C9: require_login answers 401 when the token is absent or empty, when no
\* sessions document has it as sessionId (the same 401 as for the empty token),
\* and when the session's expiresAt is earlier than now; in every other case it
\* returns the token as sessionId, the session's itcode and the profile stored
\* for that itcode, or the empty object. It writes to neither collection.
C9_RequireLoginGate ==
    [][ last'.op = "require_login" =>
          LET t == login_req'
              s == StoredSession(t)
          IN
          /\ users' = users /\ sessions' = sessions
          /\ IF ~t.present \/ t.value = <<>> THEN last'.code = 401
             ELSE IF s = None THEN last'.code = 401
             ELSE IF s[1].expiresAt # None /\ s[1].expiresAt[1] < now THEN last'.code = 401
             ELSE /\ last'.code = 200
                  /\ response'.sessionId = t.value
                  /\ response'.itcode = s[1].itcode
                  /\ response'.user = IF users[s[1].itcode] = None
                                      THEN [exp |-> None, itcode |-> None]
                                      ELSE users[s[1].itcode][1].profile ]_vars

\* a session still in storage is refused once its expiresAt has passed
C9_Witness ==
    /\ last = Reply("require_login", 401, "Session expired", 0)
    /\ login_req = [present |-> TRUE, value |-> <<1>>]
    /\ sessions[1] # None
    /\ sessions[1][1].expiresAt[1] < now

CallbackValid(r) ==
    /\ r.status = "success"
    /\ Len(r.payload) = 3
    /\ r.payload[3].mac = <<[key |-> OA_JWT_SECRET, over |-> <<r.payload[1], r.payload[2]>>]>>
    /\ r.payload[2].json # None
    /\ r.payload[2].json[1].exp # None
    /\ r.payload[2].json[1].exp[1] >= now
    /\ r.payload[2].json[1].itcode # None
    /\ r.payload[2].json[1].itcode[1] # ""

\* C10: handle_oa_callback succeeds only when the status is "success", the
\* token has three segments, its signature is the HMAC of header.payload under
\* the configured secret, and its payload carries an exp not in the past and a
\* non-empty itcode; with a secret configured it succeeds in all those cases.
\* On success it upserts the users document of that itcode with the payload as
\* profile and inserts one session for it; every rejected call leaves users and
\* sessions unchanged.
C10_CallbackWritesOnlyWhenValid ==
    [][ last'.op = "oa_callback" =>
          LET r == callback_req' IN
          /\ (last'.code = 200) <=> (CallbackValid(r) /\ OA_JWT_SECRET # "")
          /\ last'.code = 200 =>
                LET p == r.payload[2].json[1] IN
                /\ next_session' = next_session + 1
                /\ sessions[next_session'] = None
                /\ sessions'[next_session'] # None
                /\ sessions'[next_session'][1].itcode = p.itcode[1]
                /\ \A k \in SessionIds \ {next_session'} : sessions'[k] = sessions[k]
                /\ users'[p.itcode[1]] # None
                /\ users'[p.itcode[1]][1].profile = p
                /\ \A i \in Itcodes \ {p.itcode[1]} : users'[i] = users[i]
          /\ last'.code # 200 => users' = users /\ sessions' = sessions ]_vars

\* a token signed with another key is refused after an earlier login succeeded
C10_Witness ==
    /\ last = Reply("oa_callback", 400, "Invalid token signature", 0)
    /\ callback_req.status = "success"
    /\ next_session = 1
    /\ sessions[1] # None
    /\ users[sessions[1][1].itcode] # None

----------------------------------------------------------------------------
(* Ownership of upload sessions: properties *)

\* C11: an append or a finalize on an existing session by a logged-in user
\* other than the one recorded on the session writes no part file and creates
\* no audit.
C11_OnlyOwnerWritesSession ==
    [][ \A u \in UploadIds :
          ( /\ last'.op \in {"append", "finalize"}
            /\ last'.id = u
            /\ audit_uploads[u] # None
            /\ caller' # audit_uploads[u][1].userId ) =>
              /\ parts' = parts
              /\ audits' = audits
              /\ files' = files
              /\ jobs' = jobs ]_vars

----------------------------------------------------------------------------
(* Audit history: properties *)

Wanted(l) ==
    {a \in AuditIds :
        /\ audits[a] # None
        /\ l.status = {} \/ audits[a][1].status \in l.status
        /\ l.firmware_type = "" \/ audits[a][1].firmwareType = l.firmware_type
        /\ audits[a][1].userId = l.user_id}

Newer(a, among) == {b \in among : audits[b][1].createdAt > audits[a][1].createdAt}

NotOlder(a, among) == {b \in among : audits[b][1].createdAt >= audits[a][1].createdAt}

Items(l) == {l.items[k] : k \in 1..Len(l.items)}

\* one page: the matching audits by createdAt descending, positions
\* offset+1 .. offset+limit, with the count of all matching audits
PageOfSorted(l) ==
    /\ l.total = Cardinality(Wanted(l))
    /\ Len(l.items) = IF l.total <= l.offset THEN 0
                      ELSE IF l.total - l.offset < l.limit THEN l.total - l.offset
                      ELSE l.limit
    /\ \A k \in 1..Len(l.items) :
          /\ l.items[k] \in Wanted(l)
          /\ Cardinality(Newer(l.items[k], Wanted(l))) <= l.offset + k - 1
          /\ Cardinality(NotOlder(l.items[k], Wanted(l))) >= l.offset + k
    /\ \A j, k \in 1..Len(l.items) : j # k => l.items[j] # l.items[k]

\* C12: list_audits returns the caller's matching audits by createdAt
\* descending, sliced to [offset, offset+limit), with total the count of all
\* matching audits; and a page at offset 0 followed by the page that starts
\* where it ended, over the same filter, together hold every matching audit
\* once: none repeated, none skipped.
C12_PagesPartitionMatches ==
    /\ listing # NoListing => PageOfSorted(listing)
    /\ ( /\ prev_listing # NoListing
         /\ prev_listing.status = listing.status
         /\ prev_listing.firmware_type = listing.firmware_type
         /\ prev_listing.user_id = listing.user_id
         /\ prev_listing.offset = 0
         /\ listing.offset = prev_listing.limit
         /\ listing.offset + listing.limit >= listing.total ) =>
           /\ Items(prev_listing) \cap Items(listing) = {}
           /\ Items(prev_listing) \cup Items(listing) = Wanted(listing)

----------------------------------------------------------------------------
(* Audit logs: properties *)

\* C13: get_audit_logs(audit_id, limit, since) returns only log entries of
\* that audit, in ascending timestamp order, at most limit of them, and when
\* since is given only entries whose timestamp is strictly greater than since.
C13_LogsOfAuditAscendingAfterSince ==
    logs_reply # NoLogs =>
      /\ Len(logs_reply.items) <= logs_reply.limit
      /\ \A k \in 1..Len(logs_reply.items) :
            /\ logs_reply.items[k].auditId = logs_reply.audit_id
            /\ logs_reply.since # None =>
                  logs_reply.items[k].timestamp > logs_reply.since[1]
      /\ \A j, k \in 1..Len(logs_reply.items) :
            j < k => logs_reply.items[j].timestamp <= logs_reply.items[k].timestamp

\* two entries returned after a given since, while the collection also holds
\* an entry of another audit and an entry of this audit at the since value
C13_Witness ==
    /\ logs_reply # NoLogs
    /\ logs_reply.since # None
    /\ logs_reply.since[1] # EmptyStamp
    /\ Len(logs_reply.items) = 2
    /\ logs_reply.items[1].timestamp < logs_reply.items[2].timestamp
    /\ \E k \in 1..Len(audit_logs) : audit_logs[k].auditId # logs_reply.audit_id
    /\ \E k \in 1..Len(audit_logs) :
          /\ audit_logs[k].auditId = logs_reply.audit_id
          /\ audit_logs[k].timestamp = logs_reply.since[1]

----------------------------------------------------------------------------
(* PDF report: properties *)

\* C14: generate_audit_report_pdf is idempotent: when <report-dir>/<audit-id>.pdf
\* already exists the call returns that path and leaves the file as it is,
\* whatever was written to the audit or its checks since the file was made, and
\* no step of the service ever changes an existing report file; for an audit
\* that does not exist the call returns none and writes no file.
C14_ExistingPdfReturnedUnmodified ==
    [][ \A a \in AuditIds :
          /\ reports[a] # None => reports'[a] = reports[a]
          /\ (last'.op = "report_pdf" /\ last'.id = a) =>
                /\ audits[a] = None =>
                      /\ last'.code = 404
                      /\ reports' = reports
                /\ (audits[a] # None /\ reports[a] # None) =>
                      /\ last'.code = 200
                      /\ last'.detail = "audit_id.pdf" ]_vars

\* the path of a file was returned whose contents are no longer what the
\* report of the audit is now
C14_Witness ==
    \E a \in AuditIds :
        /\ last.op = "report_pdf" /\ last.id = a /\ last.code = 200
        /\ reports[a] # None
        /\ get_audit_report(a) # None
        /\ reports[a] # get_audit_report(a)
        /\ Len(get_audit_report(a)[1].checks) > Len(reports[a][1].checks)

----------------------------------------------------------------------------
(* Generic subsystem: properties *)

UsersWithEmail(table, email) ==
    {u \in UserIds : table[u] # None /\ table[u][1].email = email}

\* the caller of the step being taken, resolved against the state before it
Caller == get_current_active_user(crud_req'.token)

\* C15: registering an email that no user has returns 201 and registering it
\* again returns 400 with the detail "email already registered"; either way
\* exactly one user with that email exists afterwards.
C15_DuplicateEmailRejected ==
    [][ last'.op = "register" =>
          /\ IF UsersWithEmail(db_users, crud_req'.body.email) = {}
             THEN last'.code = 201
             ELSE last'.code = 400 /\ last'.detail = "email already registered"
          /\ Cardinality(UsersWithEmail(db_users', crud_req'.body.email)) = 1 ]_vars

\* C16: after register(e, p, n) of a new email has answered, it answered 201,
\* a login with username e and password p answers 200 with a bearer token, and
\* GET /users/me with the token of a login answers 200 with the user of that
\* email.
C16_RegisterLoginMe ==
    [][ /\ ( /\ last.op = "register"
             /\ last.detail # "email already registered"
             /\ last'.op = "login"
             /\ crud_req'.body.username = crud_req.body.email
             /\ crud_req'.body.password = crud_req.body.password ) =>
               /\ last.code = 201
               /\ last'.code = 200
               /\ crud_body'[1].token_type = "bearer"
        /\ ( /\ last.op = "login" /\ last.code = 200
             /\ last'.op = "me"
             /\ crud_req'.token = crud_body[1].access_token ) =>
               /\ last'.code = 200
               /\ crud_body'[1].email = crud_req.body.username ]_vars

\* C17: PATCH or DELETE of an item by an authenticated user who is not its
\* owner answers 403 and leaves the items table as it was, and a GET of an
\* item by its owner answers 200 with the item.
C17_OnlyOwnerChangesItem ==
    [][ \A i \in ItemIds :
          /\ ( /\ last'.op \in {"update_item", "delete_item"} /\ last'.id = i
               /\ db_items[i] # None
               /\ Caller.code = 200
               /\ Caller.id # db_items[i][1].owner_id ) =>
                 /\ last'.code = 403
                 /\ db_items' = db_items
          /\ ( /\ last'.op = "read_item" /\ last'.id = i
               /\ db_items[i] # None
               /\ Caller.code = 200
               /\ Caller.id = db_items[i][1].owner_id ) =>
                 /\ last'.code = 200
                 /\ crud_body' = Some(ItemOut(i, db_items[i][1])) ]_vars

\* another user's PATCH was refused and the item is there, as seeded
C17_Witness ==
    /\ last.op = "update_item" /\ last.code = 403
    /\ db_items[last.id] # None
    /\ db_items[last.id][1].title = "T"
    /\ crud_req.token.sub # db_items[last.id][1].owner_id

\* C18: POST /items/ by an authenticated user answers 201 with a new item
\* that is stored with owner_id the user's id and the title and description
\* sent.
C18_CreatedItemOwnedByCaller ==
    [][ (last'.op = "create_item" /\ Caller.code = 200) =>
          /\ last'.code = 201
          /\ \E i \in ItemIds :
                /\ db_items[i] = None
                /\ db_items'[i] # None
                /\ db_items'[i][1].owner_id = Caller.id
                /\ db_items'[i][1].title = crud_req'.body.title
                /\ db_items'[i][1].description = crud_req'.body.description
                /\ crud_body' = Some(ItemOut(i, db_items'[i][1])) ]_vars

\* C19: after update_user with a new password p2 has succeeded,
\* authenticate(email, p2) returns the user and authenticate(email, old)
\* returns none for every other password.
C19_NewPasswordReplacesOld ==
    [][ \A u \in UserIds :
          ( /\ last'.op = "update_user" /\ last'.id = u /\ last'.code = 200
            /\ "password" \in DOMAIN crud_req'.body ) =>
              /\ authenticate(db_users', db_users'[u][1].email, crud_req'.body.password) = db_users'[u]
              /\ \A old \in Passwords \ {crud_req'.body.password} :
                    authenticate(db_users', db_users'[u][1].email, old) = None ]_vars

\* C20: after DELETE /users/{id} of the caller's own account has answered 204,
\* GET /users/{id} with the same bearer token answers 404.
C20_DeletedUserNotFound ==
    [][ ( /\ last.op = "delete_user" /\ last.code = 204
          /\ last'.op = "read_user" /\ last'.id = last.id
          /\ crud_req'.token = crud_req.token ) =>
            last'.code = 404 ]_vars

----------------------------------------------------------------------------
(* A command-line run of the rule engine: python CheckFWFile_v1.3.1.py -f <archive>.
   This part follows the schedule of the run and what it leaves on disk; the
   tally and the database rows of a run are followed by log_assert above. *)

\* str.lower(), as re.IGNORECASE compares letters
IgnoreCase(s) ==
    LET lower(c) ==
            CASE c = "A" -> "a" [] c = "B" -> "b" [] c = "C" -> "c" [] c = "D" -> "d"
              [] c = "E" -> "e" [] c = "F" -> "f" [] c = "G" -> "g" [] c = "H" -> "h"
              [] c = "I" -> "i" [] c = "J" -> "j" [] c = "K" -> "k" [] c = "L" -> "l"
              [] c = "M" -> "m" [] c = "N" -> "n" [] c = "O" -> "o" [] c = "P" -> "p"
              [] c = "Q" -> "q" [] c = "R" -> "r" [] c = "S" -> "s" [] c = "T" -> "t"
              [] c = "U" -> "u" [] c = "V" -> "v" [] c = "W" -> "w" [] c = "X" -> "x"
              [] c = "Y" -> "y" [] c = "Z" -> "z" [] OTHER -> c
    IN [k \in 1..Len(s) |-> lower(s[k])]

\* re.search of [^_]+ _ [^_]+ _ (BMC|BIOS) _ [A-Za-z0-9.-]+ : the groups of the
\* leftmost match, every group as long as it can be; None when nothing matches
\* (the ValueError)
extract_info_from_filename(filename) ==
    LET n == Len(filename)
        \* the first "_" at k or after it, 0 when there is none
        underscore(k) ==
            LET found == {j \in k..n : filename[j] = "_"} IN
            IF found = {} THEN 0 ELSE CHOOSE j \in found : \A i \in found : j <= i
        fw_type(k) ==
            IF n >= k + 2 /\ SubSeq(filename, k, k + 2) = <<"B", "M", "C">>
            THEN <<"B", "M", "C">>
            ELSE IF n >= k + 3 /\ SubSeq(filename, k, k + 3) = <<"B", "I", "O", "S">>
            THEN <<"B", "I", "O", "S">>
            ELSE <<>>
        \* the last index of the longest run of version characters from k on
        version_end(k) ==
            CHOOSE e \in (k - 1)..n :
                /\ \A i \in k..e : filename[i] \in VersionChars
                /\ e = n \/ filename[e + 1] \notin VersionChars
        match(s) ==
            LET p == underscore(s)
                q == underscore(p + 1)
                t == fw_type(q + 1)
                u == q + Len(t) + 1
                e == version_end(u + 1)
            IN IF /\ filename[s] # "_" /\ p # 0
                  /\ q > p + 1
                  /\ t # <<>>
                  /\ u <= n /\ filename[u] = "_"
                  /\ e > u
               THEN Some([manufacturer |-> SubSeq(filename, s, p - 1),
                          product |-> SubSeq(filename, p + 1, q - 1),
                          fw_type |-> t,
                          version |-> SubSeq(filename, u + 1, e)])
               ELSE None
        starts == {s \in 1..n : match(s) # None}
    IN IF starts = {} THEN None
       ELSE match(CHOOSE s \in starts : \A r \in starts : s <= r)

\* str.replace('.zip', '')
RECURSIVE replace_zip(_)
replace_zip(v) ==
    IF Len(v) < 4 THEN v
    ELSE IF SubSeq(v, 1, 4) = <<".", "z", "i", "p">> THEN replace_zip(SubSeq(v, 5, Len(v)))
    ELSE <<v[1]>> \o replace_zip(Tail(v))

\* re.match(expected_pattern, firmware_name, re.IGNORECASE) is not None, for
\* groups made of letters, digits, "-" and "." (the "." of the version is
\* escaped, and the other groups of the names drawn here hold letters only)
naming_match(g, firmware_name) ==
    IgnoreCase(firmware_name) =
        IgnoreCase(g.MANUFACTURER \o <<"_">> \o g.PRODUCT \o <<"_">> \o g.FW_TYPE
                   \o <<"_">> \o g.FW_VERSION \o <<".", "z", "i", "p">>)

\* FIRMWARE_ZIP.endswith('.zip')
endswith_zip(name) ==
    Len(name) >= 4 /\ SubSeq(name, Len(name) - 3, Len(name)) = <<".", "z", "i", "p">>

\* the archives a run is given: the name, whether zipfile.ZipFile opens it,
\* whether <root_dir>/InbUpdateTool.zip and <root_dir>/OobUpdateTool.zip are in
\* it and are ZIP files themselves, and whether Release Note.pdf is in it
Archives ==
    LET names ==
            { pre \o c.m \o sep \o c.p \o sep \o c.t \o sep \o v \o ext :
                pre \in {<<>>, <<"x", "_">>},
                c \in { [m |-> <<"M">>, p |-> <<"P">>, t |-> <<"B", "M", "C">>],
                        [m |-> <<"m">>, p |-> <<"p">>, t |-> <<"b", "m", "c">>],
                        [m |-> <<"m">>, p |-> <<"p">>, t |-> <<"B", "M", "C">>],
                        [m |-> <<"M">>, p |-> <<"P">>, t |-> <<"B", "I", "O", "S">>] },
                sep \in {<<"_">>, <<"-">>},
                v \in {<<"1", ".", "0">>, <<"1">>},
                ext \in {<<".", "z", "i", "p">>, <<".", "Z", "I", "P">>, <<>>} }
    IN { [name |-> nm, is_zip |-> FALSE, tools |-> "none", release_note |-> FALSE] :
            nm \in names }
       \cup
       { [name |-> nm, is_zip |-> TRUE, tools |-> t, release_note |-> r] :
            nm \in names, t \in {"none", "zip", "not a zip"}, r \in BOOLEAN }

\* the calls run_all_tests makes when nothing raises, in the order of test_configs
Scheduled ==
    << [test |-> "test_firmware_naming", call |-> 1],
       [test |-> "test_files_in_zip", call |-> 1],
       [test |-> "test_paths_in_zip", call |-> 1],
       [test |-> "test_paths_in_zip", call |-> 2],
       [test |-> "test_paths_in_zip", call |-> 3],
       [test |-> "test_paths_in_zip", call |-> 4],
       [test |-> "test_operation_tool", call |-> 1],
       [test |-> "test_flashtool_md5_zip", call |-> 1],
       [test |-> "test_images_md5_zip", call |-> 1] >>

\* what a command-line run leaves alone
outside_cli == <<upload_vars, audit_vars, run_vars, auth_vars, record_vars, query_vars,
                 crud_vars>>

\* the module-level code: initialize_globals(), then os.makedirs(WORK_DIR)
initialize_globals ==
    /\ main = "python"
    /\ \E f \in Archives :
          LET info == extract_info_from_filename(f.name) IN
          /\ FIRMWARE_ZIP' = Some(f)
          /\ IF info = None
             THEN \* except ValueError: exit(1)
                  /\ main' = "exit1"
                  /\ UNCHANGED <<globals, WORK_DIR>>
                  /\ last' = Reply("cli", 1, "exit(1)", 0)
             ELSE /\ globals' = Some([MANUFACTURER |-> info[1].manufacturer,
                                      PRODUCT |-> info[1].product,
                                      FW_TYPE |-> info[1].fw_type,
                                      FW_VERSION |-> replace_zip(info[1].version)])
                  /\ WORK_DIR' = "empty"
                  /\ main' = "__main__"
                  /\ last' = Reply("cli", 0, "initialize_globals", 0)
    /\ UNCHANGED <<temp_files, invoked, naming, outside_cli>>

\* __main__: with zipfile.ZipFile(FIRMWARE_ZIP); when that raises, the except
\* prints and the finally removes WORK_DIR
open_firmware_zip ==
    /\ main = "__main__"
    /\ IF FIRMWARE_ZIP[1].is_zip
       THEN /\ main' = "test_firmware_naming"
            /\ WORK_DIR' = WORK_DIR
            /\ last' = Reply("cli", 0, "run_all_tests", 0)
       ELSE /\ main' = "exit0"
            /\ WORK_DIR' = "absent"
            /\ last' = Reply("cli", 0, "unreadable zip", 0)
    /\ UNCHANGED <<FIRMWARE_ZIP, globals, temp_files, invoked, naming, outside_cli>>

\* one turn of the loop of run_all_tests over an entry called once: the call,
\* and the except Exception around it
run_test(test, next, raised) ==
    /\ main = test
    /\ invoked' = Append(invoked, [test |-> test, call |-> 1])
    /\ main' = next
    /\ last' = Reply("cli", 0, IF raised THEN "raised" ELSE "returned", 0)
    /\ UNCHANGED <<FIRMWARE_ZIP, globals, outside_cli>>

\* its first two statements are the log_assert of the name and of the extension
test_firmware_naming ==
    /\ \E raised \in BOOLEAN : run_test("test_firmware_naming", "test_files_in_zip", raised)
    /\ naming' = << check_status(naming_match(globals[1], FIRMWARE_ZIP[1].name), "ERROR"),
                    check_status(endswith_zip(FIRMWARE_ZIP[1].name), "ERROR") >>
    /\ UNCHANGED <<WORK_DIR, temp_files>>

test_files_in_zip ==
    /\ \E raised \in BOOLEAN : run_test("test_files_in_zip", "test_paths_in_zip", raised)
    /\ UNCHANGED <<WORK_DIR, temp_files, naming>>

\* the entry with four argument lists: one try around the loop over them, so
\* the call that raises ends the loop (raising = 0: none raises)
test_paths_in_zip ==
    /\ main = "test_paths_in_zip"
    /\ \E raising \in 0..4 :
          LET calls == IF raising = 0 THEN 4 ELSE raising IN
          /\ invoked' = invoked \o [k \in 1..calls |-> [test |-> "test_paths_in_zip",
                                                       call |-> k]]
          /\ last' = Reply("cli", 0, IF raising = 0 THEN "returned" ELSE "raised", 0)
    /\ main' = "test_operation_tool"
    /\ UNCHANGED <<FIRMWARE_ZIP, globals, WORK_DIR, temp_files, naming, outside_cli>>

\* per tool package found: NamedTemporaryFile(delete=False) is written, the
\* package is opened as a ZIP and checked, and os.unlink(temp_path) follows
\* the checks; an exception in between skips the unlink
test_operation_tool ==
    /\ \/ /\ run_test("test_operation_tool", "test_flashtool_md5_zip", FALSE)
          /\ FIRMWARE_ZIP[1].tools \in {"none", "zip"}
          /\ temp_files' = temp_files
       \/ \* raised before a temporary file is written
          /\ run_test("test_operation_tool", "test_flashtool_md5_zip", TRUE)
          /\ temp_files' = temp_files
       \/ \* raised between the write and the unlink: zipfile.ZipFile(tool_zip)
          \* on a package that is not a ZIP, or a later statement of the block
          /\ run_test("test_operation_tool", "test_flashtool_md5_zip", TRUE)
          /\ FIRMWARE_ZIP[1].tools \in {"zip", "not a zip"}
          /\ temp_files' = temp_files + 1
    /\ UNCHANGED <<WORK_DIR, naming>>

\* zf.extract(..., path=WORK_DIR) of the tool package and Release Note.pdf
test_flashtool_md5_zip ==
    /\ \E raised \in BOOLEAN :
          run_test("test_flashtool_md5_zip", "test_images_md5_zip", raised)
    /\ WORK_DIR' = IF FIRMWARE_ZIP[1].release_note /\ FIRMWARE_ZIP[1].tools # "none"
                   THEN "filled" ELSE WORK_DIR
    /\ UNCHANGED <<temp_files, naming>>

\* zip_ref.extract(pdf_path, path=WORK_DIR) and of the image files
test_images_md5_zip ==
    /\ \E raised \in BOOLEAN : run_test("test_images_md5_zip", "print_zip_tree", raised)
    /\ WORK_DIR' = IF FIRMWARE_ZIP[1].release_note THEN "filled" ELSE WORK_DIR
    /\ UNCHANGED <<temp_files, naming>>

\* print_zip_tree and finalize_audit, then the finally of __main__:
\* shutil.rmtree(WORK_DIR, ignore_errors=True)
exit_main ==
    /\ main = "print_zip_tree"
    /\ main' = "exit0"
    /\ WORK_DIR' = "absent"
    /\ last' = Reply("cli", 0, "exit", 0)
    /\ UNCHANGED <<FIRMWARE_ZIP, globals, temp_files, invoked, naming, outside_cli>>

NextCli ==
    \/ initialize_globals
    \/ open_firmware_zip
    \/ test_firmware_naming
    \/ test_files_in_zip
    \/ test_paths_in_zip
    \/ test_operation_tool
    \/ test_flashtool_md5_zip
    \/ test_images_md5_zip
    \/ exit_main

SpecCli == Init /\ [][NextCli]_vars

----------------------------------------------------------------------------
(* Claims about the command-line run *)

M_P_BMC_1_0_zip ==
    <<"M", "_", "P", "_", "B", "M", "C", "_", "1", ".", "0", ".", "z", "i", "p">>

\* C21: a run on M_P_BMC_1.0.zip records PASS for the naming check, a run on
\* the same name in lower case, m_p_bmc_1.0.zip, records PASS too, and a run
\* on M-P-BMC-1.0.zip is not accepted.
C21_NamingIgnoresCase ==
    FIRMWARE_ZIP # None =>
        /\ IgnoreCase(FIRMWARE_ZIP[1].name) = IgnoreCase(M_P_BMC_1_0_zip) =>
              /\ main # "exit1"
              /\ naming # <<>> => naming[1] = "PASS"
        /\ FIRMWARE_ZIP[1].name =
              <<"M", "-", "P", "-", "B", "M", "C", "-", "1", ".", "0", ".", "z", "i", "p">> =>
                 main = "exit1"

\* C22: when run_all_tests has gone through test_configs, every scheduled
\* check has been invoked exactly once and in the scheduled order, whatever
\* the invocations raised.
C22_EveryCheckInvokedOnce ==
    main \in {"print_zip_tree", "exit0"} /\ invoked # <<>> => invoked = Scheduled

\* C25: when the run has exited, on whichever path, neither its working
\* directory nor a temporary file holding a nested tool package is left.
C25_NoExtractionSpaceLeft ==
    main \in {"exit0", "exit1"} => WORK_DIR = "absent" /\ temp_files = 0

----------------------------------------------------------------------------
(* Claims about the chunked upload, continued *)

\* C23: append_chunk_to_upload creates or changes a part file only when the
\* session exists, the declared totalChunks equals the session's and
\* 0 <= chunkIndex < totalChunks; a request for an unknown session answers
\* 404, one with another count or an index out of range answers 400, and a
\* rejected request leaves every part file as it was.
C23_AppendValidatesBeforeWriting ==
    [][ last'.op = "append" =>
          \A u \in UploadIds, i \in (-1)..MaxChunks, n \in 1..MaxChunks :
             LET known == audit_uploads[u] # None
                 valid == /\ known
                          /\ audit_uploads[u][1].totalChunks = n
                          /\ 0 <= i /\ i < n
                 \* the step is a request with these arguments
                 requested == \E s \in Slots, b \in Bodies :
                                 append_chunk_to_upload(s, u, i, n, b)
                 as_claimed == /\ parts' # parts => valid
                               /\ ~known => last'.code = 404
                               /\ known /\ ~valid => last'.code = 400
                               /\ ~valid => parts' = parts /\ inflight' = inflight
             IN as_claimed \/ ~requested ]_vars

\* an append with an index out of range was refused while a part was stored
C23_Witness ==
    /\ last.op = "append" /\ last.code = 400 /\ last.detail = "Invalid chunk index"
    /\ \E i \in ChunkIdx : parts[last.id][i] # None

----------------------------------------------------------------------------
(* Claims about sessions, continued *)

\* C24: a session's expiresAt is createdAt + REFRESH_TOKEN_EXPIRE_DAYS from
\* the moment _create_session inserts it, and no require_login and no later
\* OA callback changes or deletes a sessions document that exists.
C24_SessionLifetimeFixed ==
    [][ \A k \in SessionIds :
          /\ sessions[k] # None => sessions'[k] = sessions[k]
          /\ sessions[k] = None /\ sessions'[k] # None =>
                /\ sessions'[k][1].createdAt = now
                /\ sessions'[k][1].expiresAt =
                      Some(sessions'[k][1].createdAt + REFRESH_TOKEN_EXPIRE_DAYS) ]_vars

\* a second callback for the same itcode on a later day has made a second
\* session, and a require_login has then succeeded
C24_Witness ==
    /\ last.op = "require_login" /\ last.code = 200
    /\ \E j, k \in SessionIds :
          /\ sessions[j] # None /\ sessions[k] # None
          /\ sessions[j][1].itcode = sessions[k][1].itcode
          /\ sessions[j][1].createdAt < sessions[k][1].createdAt
          /\ sessions[j][1].expiresAt = Some(sessions[j][1].createdAt + REFRESH_TOKEN_EXPIRE_DAYS)

----------------------------------------------------------------------------
(* Claims about the tally and the records of a run *)

\* C26: STATS.total = passed + warning + failed at all times; every log_assert
\* call adds 1 to total and 1 to exactly one of passed, warning and failed,
\* whether or not its database writes succeed, and returns its condition.
C26_TallyAddsUp ==
    [][ \A a \in AuditIds :
          /\ STATS'[a].total = STATS'[a].passed + STATS'[a].warning + STATS'[a].failed
          /\ (last'.op = "engine" /\ last'.detail = "log_assert" /\ last'.id = a) =>
                LET call == asserts'[a][Len(asserts'[a])]
                    up(field) == STATS'[a][field] - STATS[a][field]
                IN /\ Len(asserts'[a]) = Len(asserts[a]) + 1
                   /\ up("total") = 1
                   /\ {up("passed"), up("warning"), up("failed")} = {0, 1}
                   /\ up("passed") + up("warning") + up("failed") = 1
                   /\ call[3] = call[1] ]_vars

\* two calls, one counted as a warning and one as a failure, with a database
\* write of the run lost
C26_Witness ==
    \E a \in AuditIds :
        /\ STATS[a].total = 2 /\ STATS[a].warning = 1 /\ STATS[a].failed = 1
        /\ db_failed[a]
        /\ Len(audit_checks) < 2

\* C27: when every database write of a run has succeeded, the passed, warning
\* and failed counts of the summary finalize_audit stored equal the numbers of
\* the run's audit_checks documents with status PASS, WARNING and FAIL.
C27_SummaryCountsChecks ==
    \A a \in AuditIds :
        (audits[a] # None /\ engine_wrote[a] # "none" /\ ~db_failed[a]) =>
            LET with(status) ==
                    Cardinality({k \in 1..Len(audit_checks) :
                                    /\ audit_checks[k].auditId = a
                                    /\ audit_checks[k].status = status})
            IN /\ audits[a][1].summary.passed = with("PASS")
               /\ audits[a][1].summary.warning = with("WARNING")
               /\ audits[a][1].summary.failed = with("FAIL")

\* C28: a write that follows acceptance (finalize_audit, _mark_audit_failed)
\* leaves createdAt, firmwareType, productName, version, userId, userName and
\* checkScript of the audits document as acceptance wrote them.
C28_AcceptanceFieldsKept ==
    [][ \A a \in AuditIds :
          audits[a] # None =>
             /\ audits'[a] # None
             /\ \A field \in {"createdAt", "firmwareType", "productName", "version",
                              "userId", "userName", "checkScript"} :
                   audits'[a][1][field] = audits[a][1][field] ]_vars

----------------------------------------------------------------------------
(* Claims about finalize among appends, and about a finalize that fails *)

\* C29: a finalize that succeeds takes, for every index, the complete bytes
\* of a chunk that was received in full: no append of the session is in
\* progress when it reads the parts, and no append writes to a session that
\* has been finalized.
C29_FinalizeTakesCompleteChunks ==
    [][ /\ \A u \in UploadIds :
              (FinalizeStep(u) /\ last'.code = 201) =>
                 /\ \A s \in Slots : ~(inflight[s].st = "writing" /\ inflight[s].u = u)
                 /\ \A i \in 0..(audit_uploads[u][1].totalChunks - 1) :
                       parts[u][i] # None /\ parts[u][i][1] \in Bodies
        /\ \A s \in Slots :
              (last'.op = "append_write" /\ inflight[s].st = "writing"
               /\ inflight'[s].pos # inflight[s].pos) =>
                 finalized[inflight[s].u] = {} ]_vars

\* C30, as claimed: a finalize that passed the all-parts check and then
\* failed answers 500, leaves no file of its own, schedules no job, stores no
\* audits document and leaves the session metadata, the directory and every
\* part as they were.
C30_FailedFinalizeLeavesNothing ==
    [][ \A u \in UploadIds :
          (FinalizeStep(u) /\ last'.code = 500) =>
             /\ files' = files
             /\ audits' = audits /\ jobs' = jobs
             /\ UNCHANGED <<audit_uploads, chunk_dirs, parts, inflight, finalized>> ]_vars

\* C30, amended: such a finalize answers 500, schedules no job, stores no
\* audits document and leaves the session metadata, the directory and every
\* part as they were, so that the checks of a retry pass again; the removal
\* of its partially assembled file is attempted once and may fail, and then
\* that one file stays under an audit id that has no audits document.
C30_FailedFinalizeKeepsSession ==
    [][ \A u \in UploadIds :
          (FinalizeStep(u) /\ last'.code = 500) =>
             /\ audits' = audits /\ jobs' = jobs
             /\ UNCHANGED <<audit_uploads, chunk_dirs, parts, inflight, finalized>>
             /\ audit_uploads'[u] # None /\ chunk_dirs'[u]
             /\ ~missing_chunk(u, audit_uploads[u][1].totalChunks)
             /\ \/ files' = files
                \/ \E a \in AuditIds :
                      /\ files[a] = None /\ files'[a] # None
                      /\ audits'[a] = None /\ a \notin jobs'
                      /\ \A b \in AuditIds \ {a} : files'[b] = files[b] ]_vars

\* a finalize failed and left its file behind, and the retry has succeeded
C30_Witness ==
    \E u \in UploadIds :
        /\ last = Reply("finalize", 201, "PENDING", u)
        /\ next_audit = 2
        /\ files[1] # None /\ audits[1] = None
        /\ files[2] # None /\ audits[2] # None /\ 2 \in jobs

====
